---- MODULE Spec2Model ----
(***************************************************************************)
(* A model of budgetsms-client: the protocol codec (utils.ts), the error   *)
(* model (errors.ts, constants.ts) and the gateway client (client.ts).     *)
(*                                                                         *)
(* A JavaScript string is a sequence of one-character strings. A number    *)
(* is a record [nan, m, e] standing for m * 10^(-e), or NaN. A thrown      *)
(* exception is [ok |-> FALSE, err |-> e], a returned value                *)
(* [ok |-> TRUE, val |-> v].                                               *)
(***************************************************************************)
EXTENDS Integers, Sequences, FiniteSets, TLC

\* ------------------------------------------------------------------ bounds
\* longest free-form tail appended to a response head
MaxTail == 3
\* most whitespace-separated tokens in a generated send-result payload
MaxTokens == 5
\* number of calls made on the one client instance
MaxCalls == 1

\* ------------------------------------------------------- JavaScript strings
WhiteSpace == {" ", "\n"}

DigitChars == {"0", "1", "2", "3", "4", "5", "6", "7", "8", "9"}

DigitVal(c) ==
  CASE c = "0" -> 0 [] c = "1" -> 1 [] c = "2" -> 2 [] c = "3" -> 3
    [] c = "4" -> 4 [] c = "5" -> 5 [] c = "6" -> 6 [] c = "7" -> 7
    [] c = "8" -> 8 [] c = "9" -> 9

\* String.prototype.substring(from), 0-based
SubstringFrom(s, from) == SubSeq(s, from + 1, Len(s))

StartsWith(s, p) == Len(s) >= Len(p) /\ SubSeq(s, 1, Len(p)) = p

RECURSIVE TrimStart(_)
TrimStart(s) ==
  IF s # <<>> /\ Head(s) \in WhiteSpace THEN TrimStart(Tail(s)) ELSE s

RECURSIVE TrimEnd(_)
TrimEnd(s) ==
  IF s # <<>> /\ s[Len(s)] \in WhiteSpace
  THEN TrimEnd(SubSeq(s, 1, Len(s) - 1)) ELSE s

\* String.prototype.trim
Trim(s) == TrimEnd(TrimStart(s))

\* length of the longest prefix of s made of characters of set cs
RECURSIVE PrefixLen(_, _)
PrefixLen(s, cs) ==
  IF s # <<>> /\ Head(s) \in cs THEN 1 + PrefixLen(Tail(s), cs) ELSE 0

\* String.prototype.split(/\s+/): cut at every maximal run of whitespace
RECURSIVE SplitWsFrom(_, _)
SplitWsFrom(s, cur) ==
  IF s = <<>> THEN <<cur>>
  ELSE IF Head(s) \in WhiteSpace
       THEN <<cur>> \o SplitWsFrom(TrimStart(s), <<>>)
       ELSE SplitWsFrom(Tail(s), Append(cur, Head(s)))

SplitWs(s) == SplitWsFrom(s, <<>>)

\* String.prototype.split(':')
RECURSIVE SplitColonFrom(_, _)
SplitColonFrom(s, cur) ==
  IF s = <<>> THEN <<cur>>
  ELSE IF Head(s) = ":"
       THEN <<cur>> \o SplitColonFrom(Tail(s), <<>>)
       ELSE SplitColonFrom(Tail(s), Append(cur, Head(s)))

SplitColon(s) == SplitColonFrom(s, <<>>)

\* ------------------------------------------------------- JavaScript numbers
NaN == [nan |-> TRUE, m |-> 0, e |-> 0]

isNaN(x) == x.nan

RECURSIVE DigitsValue(_, _)
DigitsValue(ds, acc) ==
  IF ds = <<>> THEN acc ELSE DigitsValue(Tail(ds), acc * 10 + DigitVal(Head(ds)))

\* m * 10^(-e) with the trailing zeros of the fraction removed
RECURSIVE Normalize(_, _)
Normalize(m, e) ==
  IF e > 0 /\ m % 10 = 0 THEN Normalize(m \div 10, e - 1)
  ELSE [nan |-> FALSE, m |-> m, e |-> e]

Num(n) == [nan |-> FALSE, m |-> n, e |-> 0]

\* parseInt(s, 10): leading whitespace, an optional sign, then the longest
\* run of digits; NaN when there is no digit; whatever follows is ignored
parseInt(s) ==
  LET t == TrimStart(s)
      signed == t # <<>> /\ Head(t) \in {"+", "-"}
      u == IF signed THEN Tail(t) ELSE t
      n == PrefixLen(u, DigitChars)
      v == DigitsValue(SubSeq(u, 1, n), 0)
  IN IF n = 0 THEN NaN
     ELSE Num(IF signed /\ Head(t) = "-" THEN 0 - v ELSE v)

\* parseFloat(s): leading whitespace, an optional sign, digits, an optional
\* '.' and digits; NaN when there is no digit; whatever follows is ignored
parseFloat(s) ==
  LET t == TrimStart(s)
      signed == t # <<>> /\ Head(t) \in {"+", "-"}
      u == IF signed THEN Tail(t) ELSE t
      n1 == PrefixLen(u, DigitChars)
      r == SubSeq(u, n1 + 1, Len(u))
      n2 == IF r # <<>> /\ Head(r) = "." THEN PrefixLen(Tail(r), DigitChars) ELSE 0
      ds == SubSeq(u, 1, n1) \o SubSeq(r, 2, n2 + 1)
      v == DigitsValue(ds, 0)
  IN IF n1 + n2 = 0 THEN NaN
     ELSE Normalize(IF signed /\ Head(t) = "-" THEN 0 - v ELSE v, n2)

\* ------------------------------------------------------------ JS values
\* a value of type string | number | boolean | undefined
JsUndefined == [t |-> "undefined"]

JsBool(b) == [t |-> "boolean", v |-> b]

JsString(s) == [t |-> "string", v |-> s]

JsNumber(n) == [t |-> "number", v |-> n]

JsNull == [t |-> "null"]

\* a value JavaScript coerces to false
Falsy(x) ==
  \/ x.t = "undefined"
  \/ x.t = "number" /\ x.v = 0
  \/ x.t = "string" /\ x.v = <<>>
  \/ x.t = "boolean" /\ ~x.v

Returned(v) == [ok |-> TRUE, val |-> v]

Thrown(e) == [ok |-> FALSE, err |-> e]

\* a message: a fixed text followed by interpolated values
Msg(text, args) == [text |-> text, args |-> args]

\* new Error(message)
Error(text, args) == [type |-> "Error", name |-> "Error", message |-> Msg(text, args)]

\* ------------------------------------------------------------ constants.ts
API_BASE ==
  <<"h", "t", "t", "p", "s", ":", "/", "/", "a", "p", "i", ".", "b", "u", "d", "g",
    "e", "t", "s", "m", "s", ".", "n", "e", "t">>

ERROR_MESSAGES ==
  1001 :> "Not enough credits to send messages" @@
  1002 :> "Identification failed. Wrong credentials" @@
  1003 :> "Account not active, contact BudgetSMS" @@
  1004 :> "This IP address is not added to this account. No access to the API" @@
  1005 :> "No handle provided" @@
  1006 :> "No UserID provided" @@
  1007 :> "No Username provided" @@
  2001 :> "SMS message text is empty" @@
  2002 :> "SMS numeric senderid can be max. 16 numbers" @@
  2003 :> "SMS alphanumeric sender can be max. 11 characters" @@
  2004 :> "SMS senderid is empty or invalid" @@
  2005 :> "Destination number is too short" @@
  2006 :> "Destination is not numeric" @@
  2007 :> "Destination is empty" @@
  2008 :> "SMS text is not OK (check encoding?)" @@
  2009 :> "Parameter issue (check all mandatory parameters, encoding, etc.)" @@
  2010 :> "Destination number is invalidly formatted" @@
  2011 :> "Destination is invalid" @@
  2012 :> "SMS message text is too long" @@
  2013 :> "SMS message is invalid" @@
  2014 :> "SMS CustomID is used before" @@
  2015 :> "Charset problem" @@
  2016 :> "Invalid UTF-8 encoding" @@
  2017 :> "Invalid SMSid" @@
  3001 :> "No route to destination. Contact BudgetSMS for possible solutions" @@
  3002 :> "No routes are setup. Contact BudgetSMS for a route setup" @@
  3003 :> "Invalid destination. Check international mobile number formatting" @@
  4001 :> "System error, related to customID" @@
  4002 :> "System error, temporary issue. Try resubmitting in 2 to 3 minutes" @@
  4003 :> "System error, temporary issue" @@
  4004 :> "System error, temporary issue. Contact BudgetSMS" @@
  4005 :> "System error, permanent" @@
  4006 :> "Gateway not reachable" @@
  4007 :> "System error, contact BudgetSMS" @@
  5001 :> "Send error, Contact BudgetSMS with the send details" @@
  5002 :> "Wrong SMS type" @@
  5003 :> "Wrong operator" @@
  6001 :> "Unknown error" @@
  7001 :> "No HLR provider present, Contact BudgetSMS" @@
  7002 :> "Unexpected results from HLR provider" @@
  7003 :> "Bad number format" @@
  7901 :> "Unexpected error. Contact BudgetSMS" @@
  7902 :> "HLR provider error. Contact BudgetSMS" @@
  7903 :> "HLR provider error. Contact BudgetSMS"

\* ---------------------------------------------------------------- errors.ts
\* BudgetSMSError without the fallback message for a code the table lacks
BudgetSMSError_NoFallback(code) ==
  [type |-> "BudgetSMSError", name |-> "BudgetSMSError", code |-> code,
   message |-> IF code \in DOMAIN ERROR_MESSAGES
               THEN Msg(ERROR_MESSAGES[code], <<>>)
               ELSE Msg("undefined", <<>>)]

\* new BudgetSMSError(code): message || ERROR_MESSAGES[code] || fallback,
\* with no custom message given
BudgetSMSError(code) ==
  [type |-> "BudgetSMSError", name |-> "BudgetSMSError", code |-> code,
   message |-> IF code \in DOMAIN ERROR_MESSAGES
               THEN Msg(ERROR_MESSAGES[code], <<>>)
               ELSE Msg("BudgetSMS API error: ", <<code>>)]

\* --------------------------------------------------------------- errors.ts
\* enum BudgetSMSErrorCode
BudgetSMSErrorCode ==
  [NOT_ENOUGH_CREDITS |-> 1001,
   INVALID_CREDENTIALS |-> 1002,
   ACCOUNT_NOT_ACTIVE |-> 1003,
   IP_NOT_ALLOWED |-> 1004,
   NO_HANDLE_PROVIDED |-> 1005,
   NO_USERID_PROVIDED |-> 1006,
   NO_USERNAME_PROVIDED |-> 1007,
   SMS_TEXT_EMPTY |-> 2001,
   SMS_NUMERIC_SENDER_TOO_LONG |-> 2002,
   SMS_ALPHANUMERIC_SENDER_TOO_LONG |-> 2003,
   SMS_SENDER_EMPTY_OR_INVALID |-> 2004,
   DESTINATION_TOO_SHORT |-> 2005,
   DESTINATION_NOT_NUMERIC |-> 2006,
   DESTINATION_EMPTY |-> 2007,
   SMS_TEXT_NOT_OK |-> 2008,
   PARAMETER_ISSUE |-> 2009,
   DESTINATION_INVALIDLY_FORMATTED |-> 2010,
   DESTINATION_INVALID |-> 2011,
   SMS_TEXT_TOO_LONG |-> 2012,
   SMS_MESSAGE_INVALID |-> 2013,
   CUSTOM_ID_ALREADY_USED |-> 2014,
   CHARSET_PROBLEM |-> 2015,
   INVALID_UTF8_ENCODING |-> 2016,
   INVALID_SMS_ID |-> 2017,
   NO_ROUTE_TO_DESTINATION |-> 3001,
   NO_ROUTES_SETUP |-> 3002,
   INVALID_DESTINATION |-> 3003,
   SYSTEM_ERROR_CUSTOM_ID |-> 4001,
   SYSTEM_ERROR_TEMPORARY |-> 4002,
   SYSTEM_ERROR_TEMPORARY_2 |-> 4003,
   SYSTEM_ERROR_CONTACT_SUPPORT |-> 4004,
   SYSTEM_ERROR_PERMANENT |-> 4005,
   GATEWAY_NOT_REACHABLE |-> 4006,
   SYSTEM_ERROR_CONTACT_SUPPORT_2 |-> 4007,
   SEND_ERROR |-> 5001,
   WRONG_SMS_TYPE |-> 5002,
   WRONG_OPERATOR |-> 5003,
   UNKNOWN_ERROR |-> 6001,
   NO_HLR_PROVIDER |-> 7001,
   UNEXPECTED_HLR_RESULTS |-> 7002,
   BAD_NUMBER_FORMAT |-> 7003,
   HLR_UNEXPECTED_ERROR |-> 7901,
   HLR_PROVIDER_ERROR |-> 7902,
   HLR_PROVIDER_ERROR_2 |-> 7903]

\* a predicate that takes every system error of the 4000 range for temporary
isRetryable_WholeRange(this) == this.code >= 4001 /\ this.code <= 4007

\* BudgetSMSError.isRetryable()
isRetryable(this) ==
  this.code \in {BudgetSMSErrorCode.SYSTEM_ERROR_TEMPORARY,
                 BudgetSMSErrorCode.SYSTEM_ERROR_TEMPORARY_2,
                 BudgetSMSErrorCode.GATEWAY_NOT_REACHABLE}

\* BudgetSMSError.isAuthenticationError()
isAuthenticationError(this) ==
  this.code \in {BudgetSMSErrorCode.INVALID_CREDENTIALS,
                 BudgetSMSErrorCode.ACCOUNT_NOT_ACTIVE,
                 BudgetSMSErrorCode.IP_NOT_ALLOWED,
                 BudgetSMSErrorCode.NO_HANDLE_PROVIDED,
                 BudgetSMSErrorCode.NO_USERID_PROVIDED,
                 BudgetSMSErrorCode.NO_USERNAME_PROVIDED}

\* BudgetSMSError.isInsufficientCredits()
isInsufficientCredits(this) == this.code = BudgetSMSErrorCode.NOT_ENOUGH_CREDITS

\* ----------------------------------------------------------------- utils.ts
\* parseResponse returning the remainder after 'OK ' without trimming it
parseResponse_NoPayloadTrim(response) ==
  LET trimmed == Trim(response)
      errorCode == parseInt(SubstringFrom(trimmed, 4))
  IN IF StartsWith(trimmed, <<"E", "R", "R", " ">>)
     THEN IF isNaN(errorCode)
          THEN Thrown(Error("Invalid error response format: ", <<trimmed>>))
          ELSE Thrown(BudgetSMSError(errorCode.m))
     ELSE IF StartsWith(trimmed, <<"O", "K", " ">>)
     THEN Returned(SubstringFrom(trimmed, 3))
     ELSE IF trimmed = <<"O", "K">>
     THEN Returned(<<>>)
     ELSE Thrown(Error("Unexpected API response format: ", <<trimmed>>))

parseResponse(response) ==
  LET trimmed == Trim(response)
      errorCode == parseInt(SubstringFrom(trimmed, 4))
  IN IF StartsWith(trimmed, <<"E", "R", "R", " ">>)
     THEN IF isNaN(errorCode)
          THEN Thrown(Error("Invalid error response format: ", <<trimmed>>))
          ELSE Thrown(BudgetSMSError(errorCode.m))
     ELSE IF StartsWith(trimmed, <<"O", "K", " ">>)
     THEN Returned(Trim(SubstringFrom(trimmed, 3)))
     ELSE IF trimmed = <<"O", "K">>
     THEN Returned(<<>>)
     ELSE Thrown(Error("Unexpected API response format: ", <<trimmed>>))

\* parseSendSMSResponse asking for one token too many before it reads the
\* price and the part count
parseSendSMSResponse_OffByOne(response, includePrice, includeMccMnc, includeCredit) ==
  LET data == parseResponse(response)
      parts == SplitWs(data.val)
      r0 == [success |-> TRUE, smsId |-> parts[1]]
      index0 == 1
      takePrice == ~Falsy(includePrice) /\ Len(parts) > index0 + 2
      r1 == IF takePrice
            THEN r0 @@ [price |-> parseFloat(parts[index0 + 1]),
                        parts |-> parseInt(parts[index0 + 2])]
            ELSE r0
      index1 == IF takePrice THEN index0 + 2 ELSE index0
      takeMccMnc == ~Falsy(includeMccMnc) /\ Len(parts) > index1
      r2 == IF takeMccMnc THEN r1 @@ [mccMnc |-> parts[index1 + 1]] ELSE r1
      index2 == IF takeMccMnc THEN index1 + 1 ELSE index1
      takeCredit == ~Falsy(includeCredit) /\ Len(parts) > index2
      r3 == IF takeCredit THEN r2 @@ [credit |-> parseFloat(parts[index2 + 1])] ELSE r2
  IN IF ~data.ok THEN data
     ELSE IF Len(parts) = 0
     THEN Thrown(Error("Invalid send SMS response: no SMS ID found", <<>>))
     ELSE Returned(r3)

\* a decoder that insists on the price and part count it was asked for
parseSendSMSResponse_StrictPrice(response, includePrice, includeMccMnc, includeCredit) ==
  LET data == parseResponse(response)
      parts == SplitWs(data.val)
      r0 == [success |-> TRUE, smsId |-> parts[1]]
      index0 == 1
      takePrice == ~Falsy(includePrice) /\ Len(parts) > index0 + 1
      r1 == IF takePrice
            THEN r0 @@ [price |-> parseFloat(parts[index0 + 1]),
                        parts |-> parseInt(parts[index0 + 2])]
            ELSE r0
      index1 == IF takePrice THEN index0 + 2 ELSE index0
      takeMccMnc == ~Falsy(includeMccMnc) /\ Len(parts) > index1
      r2 == IF takeMccMnc THEN r1 @@ [mccMnc |-> parts[index1 + 1]] ELSE r1
      index2 == IF takeMccMnc THEN index1 + 1 ELSE index1
      takeCredit == ~Falsy(includeCredit) /\ Len(parts) > index2
      r3 == IF takeCredit THEN r2 @@ [credit |-> parseFloat(parts[index2 + 1])] ELSE r2
  IN IF ~data.ok THEN data
     ELSE IF Len(parts) = 0
     THEN Thrown(Error("Invalid send SMS response: no SMS ID found", <<>>))
     ELSE IF ~Falsy(includePrice) /\ ~takePrice
     THEN Thrown(Error("Invalid send SMS response: no price found", <<>>))
     ELSE Returned(r3)

parseSendSMSResponse(response, includePrice, includeMccMnc, includeCredit) ==
  LET data == parseResponse(response)
      parts == SplitWs(data.val)
      r0 == [success |-> TRUE, smsId |-> parts[1]]
      index0 == 1
      takePrice == ~Falsy(includePrice) /\ Len(parts) > index0 + 1
      r1 == IF takePrice
            THEN r0 @@ [price |-> parseFloat(parts[index0 + 1]),
                        parts |-> parseInt(parts[index0 + 2])]
            ELSE r0
      index1 == IF takePrice THEN index0 + 2 ELSE index0
      takeMccMnc == ~Falsy(includeMccMnc) /\ Len(parts) > index1
      r2 == IF takeMccMnc THEN r1 @@ [mccMnc |-> parts[index1 + 1]] ELSE r1
      index2 == IF takeMccMnc THEN index1 + 1 ELSE index1
      takeCredit == ~Falsy(includeCredit) /\ Len(parts) > index2
      r3 == IF takeCredit THEN r2 @@ [credit |-> parseFloat(parts[index2 + 1])] ELSE r2
  IN IF ~data.ok THEN data
     ELSE IF Len(parts) = 0
     THEN Thrown(Error("Invalid send SMS response: no SMS ID found", <<>>))
     ELSE Returned(r3)

parseCheckCreditResponse(response) ==
  LET data == parseResponse(response)
      credit == parseFloat(data.val)
  IN IF ~data.ok THEN data
     ELSE IF isNaN(credit)
     THEN Thrown(Error("Invalid credit response: ", <<data.val>>))
     ELSE Returned([success |-> TRUE, credit |-> credit])

\* a decoder that takes only a payload of exactly three parts
parseOperatorResponse_ExactlyThree(response) ==
  LET data == parseResponse(response)
      parts == SplitColon(data.val)
  IN IF ~data.ok THEN data
     ELSE IF Len(parts) # 3
     THEN Thrown(Error("Invalid operator response format: ", <<data.val>>))
     ELSE Returned([success |-> TRUE, mccMnc |-> parts[1], operatorName |-> parts[2],
                    messageCost |-> parseFloat(parts[3])])

parseOperatorResponse(response) ==
  LET data == parseResponse(response)
      parts == SplitColon(data.val)
  IN IF ~data.ok THEN data
     ELSE IF Len(parts) < 3
     THEN Thrown(Error("Invalid operator response format: ", <<data.val>>))
     ELSE Returned([success |-> TRUE, mccMnc |-> parts[1], operatorName |-> parts[2],
                    messageCost |-> parseFloat(parts[3])])

\* enum DLRStatus: the delivery statuses the gateway documents
DLRStatus == (0..8) \cup {11, 12, 13}

\* a decoder that takes only the documented statuses
parseSMSStatusResponse_KnownOnly(response, smsId) ==
  LET data == parseResponse(response)
      status == parseInt(data.val)
  IN IF ~data.ok THEN data
     ELSE IF isNaN(status) \/ status.m \notin DLRStatus
     THEN Thrown(Error("Invalid status response: ", <<data.val>>))
     ELSE Returned([success |-> TRUE, smsId |-> smsId, status |-> status.m])

parseSMSStatusResponse(response, smsId) ==
  LET data == parseResponse(response)
      status == parseInt(data.val)
  IN IF ~data.ok THEN data
     ELSE IF isNaN(status)
     THEN Thrown(Error("Invalid status response: ", <<data.val>>))
     ELSE Returned([success |-> TRUE, smsId |-> smsId, status |-> status.m])

\* ------------------------------------------------------------- JSON.parse
JsonWhiteSpace == {" ", "\n", "\t", "\r"}

RECURSIVE JsonWs(_)
JsonWs(s) == IF s # <<>> /\ Head(s) \in JsonWhiteSpace THEN JsonWs(Tail(s)) ELSE s

JsonFail == [ok |-> FALSE, val |-> [t |-> "null"], rest |-> <<>>]

JsonOk(v, rest) == [ok |-> TRUE, val |-> v, rest |-> rest]

\* number = [-] (0 | digit1-9 digits) [. digits], no exponent
JsonNumber(s) ==
  LET neg == s # <<>> /\ Head(s) = "-"
      u == IF neg THEN Tail(s) ELSE s
      n1 == PrefixLen(u, DigitChars)
      r == SubSeq(u, n1 + 1, Len(u))
      dot == r # <<>> /\ Head(r) = "."
      n2 == IF dot THEN PrefixLen(Tail(r), DigitChars) ELSE 0
      rest == IF dot THEN SubSeq(r, n2 + 2, Len(r)) ELSE r
      v == DigitsValue(SubSeq(u, 1, n1) \o SubSeq(r, 2, n2 + 1), 0)
  IN IF n1 = 0 \/ (n1 > 1 /\ Head(u) = "0") \/ (dot /\ n2 = 0) THEN JsonFail
     ELSE JsonOk([t |-> "number", v |-> Normalize(IF neg THEN 0 - v ELSE v, n2)], rest)

\* string = '"' characters '"', no escapes, no control characters
JsonString(s) ==
  LET body == Tail(s)
      n == PrefixLen(body, {body[i] : i \in 1..Len(body)} \ {"\"", "\\", "\n", "\t", "\r"})
  IN IF n < Len(body) /\ body[n + 1] = "\""
     THEN JsonOk([t |-> "string", v |-> SubSeq(body, 1, n)], SubSeq(body, n + 2, Len(body)))
     ELSE JsonFail

RECURSIVE JsonValue(_)
RECURSIVE JsonElements(_, _)
RECURSIVE JsonMembers(_, _)

JsonValue(s0) ==
  LET s == JsonWs(s0)
  IN IF s = <<>> THEN JsonFail
     ELSE IF Head(s) = "["
     THEN LET r == JsonWs(Tail(s))
          IN IF r # <<>> /\ Head(r) = "]"
             THEN JsonOk([t |-> "array", v |-> <<>>], Tail(r))
             ELSE JsonElements(Tail(s), <<>>)
     ELSE IF Head(s) = "{"
     THEN LET r == JsonWs(Tail(s))
          IN IF r # <<>> /\ Head(r) = "}"
             THEN JsonOk([t |-> "object", v |-> <<>>], Tail(r))
             ELSE JsonMembers(Tail(s), <<>>)
     ELSE IF Head(s) = "\"" THEN JsonString(s)
     ELSE IF Head(s) \in DigitChars \cup {"-"} THEN JsonNumber(s)
     ELSE IF StartsWith(s, <<"n", "u", "l", "l">>)
     THEN JsonOk([t |-> "null"], SubstringFrom(s, 4))
     ELSE IF StartsWith(s, <<"t", "r", "u", "e">>)
     THEN JsonOk([t |-> "boolean", v |-> TRUE], SubstringFrom(s, 4))
     ELSE IF StartsWith(s, <<"f", "a", "l", "s", "e">>)
     THEN JsonOk([t |-> "boolean", v |-> FALSE], SubstringFrom(s, 5))
     ELSE JsonFail

\* the elements of an array after '[' or ',' up to the closing ']'
JsonElements(s, acc) ==
  LET e == JsonValue(s)
      r == JsonWs(e.rest)
  IN IF ~e.ok \/ r = <<>> THEN JsonFail
     ELSE IF Head(r) = "," THEN JsonElements(Tail(r), Append(acc, e.val))
     ELSE IF Head(r) = "]" THEN JsonOk([t |-> "array", v |-> Append(acc, e.val)], Tail(r))
     ELSE JsonFail

\* the members of an object after '{' or ',' up to the closing '}'
JsonMembers(s, acc) ==
  LET k0 == JsonWs(s)
      k == IF k0 # <<>> /\ Head(k0) = "\"" THEN JsonString(k0) ELSE JsonFail
      c == JsonWs(k.rest)
      e == IF k.ok /\ c # <<>> /\ Head(c) = ":" THEN JsonValue(Tail(c)) ELSE JsonFail
      r == JsonWs(e.rest)
  IN IF ~e.ok \/ r = <<>> THEN JsonFail
     ELSE IF Head(r) = "," THEN JsonMembers(Tail(r), Append(acc, <<k.val.v, e.val>>))
     ELSE IF Head(r) = "}"
     THEN JsonOk([t |-> "object", v |-> Append(acc, <<k.val.v, e.val>>)], Tail(r))
     ELSE JsonFail

\* JSON.parse(text): the value, or a SyntaxError
JSONparse(text) ==
  LET p == JsonValue(text)
  IN IF p.ok /\ JsonWs(p.rest) = <<>> THEN Returned(p.val)
     ELSE Thrown([type |-> "SyntaxError", name |-> "SyntaxError",
                  message |-> Msg("Unexpected token", <<>>)])

\* a test by typeof, which takes every object for an array
ArrayIsArray_TypeofObject(v) == v.t \in {"array", "object"}

ArrayIsArray(v) == v.t = "array"

\* parsePricingResponse without the check for an error response
parsePricingResponse_JsonFirst(response) ==
  LET parsed == JSONparse(response)
      tried == IF ~parsed.ok THEN parsed
               ELSE IF ~ArrayIsArray(parsed.val)
               THEN Thrown(Error("Pricing response is not an array", <<>>))
               ELSE Returned(parsed.val.v)
  IN IF tried.ok THEN tried
     ELSE IF tried.err.type = "BudgetSMSError" THEN tried
     ELSE Thrown(Error("Failed to parse pricing response: ", <<tried.err.message>>))

\* parsePricingResponse with the check for an error response inside the try
\* block and a catch block that wraps whatever was thrown
parsePricingResponse_Rewrap(response) ==
  LET env == IF StartsWith(Trim(response), <<"E", "R", "R", " ">>)
             THEN parseResponse(response) ELSE Returned(<<>>)
      parsed == JSONparse(response)
      tried == IF ~env.ok THEN env
               ELSE IF ~parsed.ok THEN parsed
               ELSE IF ~ArrayIsArray(parsed.val)
               THEN Thrown(Error("Pricing response is not an array", <<>>))
               ELSE Returned(parsed.val.v)
  IN IF tried.ok THEN tried
     ELSE Thrown(Error("Failed to parse pricing response: ", <<tried.err.message>>))

parsePricingResponse(response) ==
  LET env == IF StartsWith(Trim(response), <<"E", "R", "R", " ">>)
             THEN parseResponse(response) ELSE Returned(<<>>)
      parsed == JSONparse(response)
      \* the outcome of the try block
      tried == IF ~parsed.ok THEN parsed
               ELSE IF ~ArrayIsArray(parsed.val)
               THEN Thrown(Error("Pricing response is not an array", <<>>))
               ELSE Returned(parsed.val.v)
  IN IF ~env.ok THEN env
     ELSE IF tried.ok THEN tried
     ELSE IF tried.err.type = "BudgetSMSError" THEN tried
     ELSE Thrown(Error("Failed to parse pricing response: ", <<tried.err.message>>))

\* ------------------------------------------------------------- validators
LetterChars ==
  {"a", "b", "c", "d", "e", "f", "g", "h", "i", "j", "k", "l", "m", "n", "o", "p", "q", "r",
   "s", "t", "u", "v", "w", "x", "y", "z", "A", "B", "C", "D", "E", "F", "G", "H", "I", "J",
   "K", "L", "M", "N", "O", "P", "Q", "R", "S", "T", "U", "V", "W", "X", "Y", "Z"}

\* /^[cs]{lo,hi}$/.test(s): the quantifier takes between lo and hi
\* characters of the run of cs at the start of s, and '$', without the m
\* flag, matches only at the end of the input
RegExpTest(s, cs, lo, hi) ==
  LET run == PrefixLen(s, cs)
  IN \E k \in lo..hi : k <= run /\ k = Len(s)

\* a test without the anchors: any run of 8 digits inside the string passes
validatePhoneNumber_Unanchored(phoneNumber) ==
  \E i \in 1..Len(phoneNumber) :
    PrefixLen(SubSeq(phoneNumber, i, Len(phoneNumber)), DigitChars) >= 8

validatePhoneNumber(phoneNumber) == RegExpTest(phoneNumber, DigitChars, 8, 16)

\* a sender test with one length limit for both kinds of sender
validateSender_OneLimit(sender) ==
  IF RegExpTest(sender, LetterChars \cup DigitChars, 1, 16) THEN TRUE
  ELSE IF RegExpTest(sender, DigitChars, 1, 16) THEN TRUE
  ELSE FALSE

validateSender(sender) ==
  IF RegExpTest(sender, LetterChars \cup DigitChars, 1, 11) THEN TRUE
  ELSE IF RegExpTest(sender, DigitChars, 1, 16) THEN TRUE
  ELSE FALSE

\* a length test that stops one short of the limit
validateMessage_Below(message) == Len(message) > 0 /\ Len(message) < 612

validateMessage(message) == Len(message) > 0 /\ Len(message) <= 612

\* ----------------------------------------------------- encodeURIComponent
\* the characters encodeURIComponent leaves as they are
UriUnreserved ==
  {"A", "B", "C", "D", "E", "F", "G", "H", "I", "J", "K", "L", "M", "N", "O", "P", "Q", "R",
   "S", "T", "U", "V", "W", "X", "Y", "Z", "a", "b", "c", "d", "e", "f", "g", "h", "i", "j",
   "k", "l", "m", "n", "o", "p", "q", "r", "s", "t", "u", "v", "w", "x", "y", "z", "0", "1",
   "2", "3", "4", "5", "6", "7", "8", "9", "-", "_", ".", "!", "~", "*", "'", "(", ")"}

\* the percent-escape of a reserved ASCII character
UriEscape(c) ==
  CASE c = " " -> <<"%", "2", "0">>
    [] c = "\n" -> <<"%", "0", "A">>
    [] c = "\"" -> <<"%", "2", "2">>
    [] c = "#" -> <<"%", "2", "3">>
    [] c = "$" -> <<"%", "2", "4">>
    [] c = "%" -> <<"%", "2", "5">>
    [] c = "&" -> <<"%", "2", "6">>
    [] c = "+" -> <<"%", "2", "B">>
    [] c = "," -> <<"%", "2", "C">>
    [] c = "/" -> <<"%", "2", "F">>
    [] c = ":" -> <<"%", "3", "A">>
    [] c = ";" -> <<"%", "3", "B">>
    [] c = "=" -> <<"%", "3", "D">>
    [] c = "?" -> <<"%", "3", "F">>
    [] c = "@" -> <<"%", "4", "0">>
    [] c = "[" -> <<"%", "5", "B">>
    [] c = "]" -> <<"%", "5", "D">>
    [] c = "{" -> <<"%", "7", "B">>
    [] c = "}" -> <<"%", "7", "D">>

RECURSIVE encodeURIComponent(_)
encodeURIComponent(s) ==
  IF s = <<>> THEN <<>>
  ELSE (IF Head(s) \in UriUnreserved THEN <<Head(s)>> ELSE UriEscape(Head(s)))
       \o encodeURIComponent(Tail(s))

\* the decimal digits of a natural number
RECURSIVE NatToString(_)
NatToString(n) ==
  LET d == <<"0", "1", "2", "3", "4", "5", "6", "7", "8", "9">>[(n % 10) + 1]
  IN IF n < 10 THEN <<d>> ELSE Append(NatToString(n \div 10), d)

\* String(value) of a string or of an integer number
String(value) ==
  IF value.t = "string" THEN value.v
  ELSE IF value.v < 0 THEN <<"-">> \o NatToString(0 - value.v)
  ELSE NatToString(value.v)

\* an encoder that writes booleans the way String(value) does
RECURSIVE buildQueryPairs_BoolAsWord(_)
buildQueryPairs_BoolAsWord(params) ==
  IF params = <<>> THEN <<>>
  ELSE LET key == Head(params)[1]
           value == Head(params)[2]
           stringValue == IF value.t = "boolean"
                          THEN (IF value.v THEN <<"t", "r", "u", "e">>
                                ELSE <<"f", "a", "l", "s", "e">>)
                          ELSE String(value)
       IN (IF value.t # "undefined" /\ value.t # "null"
           THEN <<encodeURIComponent(key) \o <<"=">> \o encodeURIComponent(stringValue)>>
           ELSE <<>>)
          \o buildQueryPairs_BoolAsWord(Tail(params))

\* an encoder that escapes the values and not the keys
RECURSIVE buildQueryPairs_RawKey(_)
buildQueryPairs_RawKey(params) ==
  IF params = <<>> THEN <<>>
  ELSE LET key == Head(params)[1]
           value == Head(params)[2]
           stringValue == IF value.t = "boolean"
                          THEN (IF value.v THEN <<"1">> ELSE <<"0">>)
                          ELSE String(value)
       IN (IF value.t # "undefined" /\ value.t # "null"
           THEN <<key \o <<"=">> \o encodeURIComponent(stringValue)>>
           ELSE <<>>)
          \o buildQueryPairs_RawKey(Tail(params))

\* an encoder that leaves out every value JavaScript coerces to false
RECURSIVE buildQueryPairs_SkipFalsy(_)
buildQueryPairs_SkipFalsy(params) ==
  IF params = <<>> THEN <<>>
  ELSE LET key == Head(params)[1]
           value == Head(params)[2]
           stringValue == IF value.t = "boolean"
                          THEN (IF value.v THEN <<"1">> ELSE <<"0">>)
                          ELSE String(value)
       IN (IF value.t # "undefined" /\ value.t # "null" /\ ~Falsy(value)
           THEN <<encodeURIComponent(key) \o <<"=">> \o encodeURIComponent(stringValue)>>
           ELSE <<>>)
          \o buildQueryPairs_SkipFalsy(Tail(params))

\* params is the sequence of [key, value] entries of the object, in
\* insertion order (Object.entries)
RECURSIVE buildQueryPairs(_)
buildQueryPairs(params) ==
  IF params = <<>> THEN <<>>
  ELSE LET key == Head(params)[1]
           value == Head(params)[2]
           stringValue == IF value.t = "boolean"
                          THEN (IF value.v THEN <<"1">> ELSE <<"0">>)
                          ELSE String(value)
       IN (IF value.t # "undefined" /\ value.t # "null"
           THEN <<encodeURIComponent(key) \o <<"=">> \o encodeURIComponent(stringValue)>>
           ELSE <<>>)
          \o buildQueryPairs(Tail(params))

\* Array.prototype.join('&')
RECURSIVE JoinAmp(_)
JoinAmp(pairs) ==
  IF pairs = <<>> THEN <<>>
  ELSE IF Len(pairs) = 1 THEN pairs[1]
  ELSE pairs[1] \o <<"&">> \o JoinAmp(Tail(pairs))

buildQueryString(params) == JoinAmp(buildQueryPairs(params))

\* ------------------------------------------------------------ constants.ts
ENDPOINTS ==
  [SEND_SMS |-> <<"/", "s", "e", "n", "d", "s", "m", "s", "/">>,
   TEST_SMS |-> <<"/", "t", "e", "s", "t", "s", "m", "s", "/">>,
   CHECK_CREDIT |-> <<"/", "c", "h", "e", "c", "k", "c", "r", "e", "d", "i", "t", "/">>,
   CHECK_OPERATOR |-> <<"/", "c", "h", "e", "c", "k", "o", "p", "e", "r", "a", "t", "o", "r", "/">>,
   HLR |-> <<"/", "h", "l", "r", "/">>,
   CHECK_SMS |-> <<"/", "c", "h", "e", "c", "k", "s", "m", "s", "/">>,
   GET_PRICING |-> <<"/", "g", "e", "t", "p", "r", "i", "c", "i", "n", "g", "/">>]

\* ------------------------------------------------------------------ state
\* codec runs: the raw text handed to a decoder, the decoder applied with
\* its other arguments, and what it returned or threw
VARIABLES raw, applied, output

\* the client: the constructor's argument, the instance's fields, and one
\* record per call made on the instance
VARIABLES config, client, calls

vars == <<raw, applied, output, config, client, calls>>

codecVars == <<raw, applied, output>>

clientVars == <<config, client, calls>>

\* ------------------------------------------------------------- client.ts
\* constructor(config)
BudgetSMS(cfg) ==
  [username |-> cfg.username,
   userid |-> cfg.userid,
   handle |-> cfg.handle,
   baseUrl |-> IF Falsy(cfg.baseUrl) THEN API_BASE ELSE cfg.baseUrl.v,
   timeout |-> IF Falsy(cfg.timeout) THEN 30000 ELSE cfg.timeout.v]

getAuthParams(this) ==
  << <<<<"u", "s", "e", "r", "n", "a", "m", "e">>, JsString(this.username)>>,
     <<<<"u", "s", "e", "r", "i", "d">>, JsString(this.userid)>>,
     <<<<"h", "a", "n", "d", "l", "e">>, JsString(this.handle)>> >>

Methods ==
  {"sendSMS", "testSMS", "checkCredit", "checkOperator", "hlr", "checkSMS", "getPricing"}

\* testSMS copied from sendSMS with the endpoint left as it was
EndpointOf_TestAsSend(method) ==
  CASE method \in {"sendSMS", "testSMS"} -> ENDPOINTS.SEND_SMS
    [] method = "checkCredit" -> ENDPOINTS.CHECK_CREDIT
    [] method = "checkOperator" -> ENDPOINTS.CHECK_OPERATOR
    [] method = "hlr" -> ENDPOINTS.HLR
    [] method = "checkSMS" -> ENDPOINTS.CHECK_SMS
    [] method = "getPricing" -> ENDPOINTS.GET_PRICING

\* the endpoint a method passes to request()
EndpointOf(method) ==
  CASE method = "sendSMS" -> ENDPOINTS.SEND_SMS
    [] method = "testSMS" -> ENDPOINTS.TEST_SMS
    [] method = "checkCredit" -> ENDPOINTS.CHECK_CREDIT
    [] method = "checkOperator" -> ENDPOINTS.CHECK_OPERATOR
    [] method = "hlr" -> ENDPOINTS.HLR
    [] method = "checkSMS" -> ENDPOINTS.CHECK_SMS
    [] method = "getPricing" -> ENDPOINTS.GET_PRICING

\* a test method that does not pass the optional flags on to the gateway
RequestParamsOf_TestNoFlags(this, method, arg) ==
  CASE method = "sendSMS" ->
         getAuthParams(this) \o
         << <<<<"m", "s", "g">>, arg.msg>>, <<<<"f", "r", "o", "m">>, arg.from>>, <<<<"t", "o">>, arg.to>>,
            <<<<"c", "u", "s", "t", "o", "m", "i", "d">>, arg.customid>>, <<<<"p", "r", "i", "c", "e">>, arg.price>>,
            <<<<"m", "c", "c", "m", "n", "c">>, arg.mccmnc>>, <<<<"c", "r", "e", "d", "i", "t">>, arg.credit>> >>
    [] method = "testSMS" ->
         getAuthParams(this) \o
         << <<<<"m", "s", "g">>, arg.msg>>, <<<<"f", "r", "o", "m">>, arg.from>>, <<<<"t", "o">>, arg.to>>,
            <<<<"c", "u", "s", "t", "o", "m", "i", "d">>, arg.customid>> >>
    [] method \in {"checkCredit", "getPricing"} -> getAuthParams(this)
    [] method = "checkOperator" ->
         getAuthParams(this) \o << <<<<"c", "h", "e", "c", "k">>, arg.phoneNumber>> >>
    [] method = "hlr" -> getAuthParams(this) \o << <<<<"t", "o">>, arg.phoneNumber>> >>
    [] method = "checkSMS" -> getAuthParams(this) \o << <<<<"s", "m", "s", "i", "d">>, arg.smsId>> >>

\* the requestParams object a method builds from its argument
RequestParamsOf(this, method, arg) ==
  CASE method = "sendSMS" ->
         getAuthParams(this) \o
         << <<<<"m", "s", "g">>, arg.msg>>, <<<<"f", "r", "o", "m">>, arg.from>>, <<<<"t", "o">>, arg.to>>,
            <<<<"c", "u", "s", "t", "o", "m", "i", "d">>, arg.customid>>, <<<<"p", "r", "i", "c", "e">>, arg.price>>,
            <<<<"m", "c", "c", "m", "n", "c">>, arg.mccmnc>>, <<<<"c", "r", "e", "d", "i", "t">>, arg.credit>> >>
    [] method = "testSMS" ->
         getAuthParams(this) \o
         << <<<<"m", "s", "g">>, arg.msg>>, <<<<"f", "r", "o", "m">>, arg.from>>, <<<<"t", "o">>, arg.to>>,
            <<<<"c", "u", "s", "t", "o", "m", "i", "d">>, arg.customid>>, <<<<"p", "r", "i", "c", "e">>, arg.price>>,
            <<<<"m", "c", "c", "m", "n", "c">>, arg.mccmnc>>, <<<<"c", "r", "e", "d", "i", "t">>, arg.credit>> >>
    [] method \in {"checkCredit", "getPricing"} -> getAuthParams(this)
    [] method = "checkOperator" ->
         getAuthParams(this) \o << <<<<"c", "h", "e", "c", "k">>, arg.phoneNumber>> >>
    [] method = "hlr" -> getAuthParams(this) \o << <<<<"t", "o">>, arg.phoneNumber>> >>
    [] method = "checkSMS" -> getAuthParams(this) \o << <<<<"s", "m", "s", "i", "d">>, arg.smsId>> >>

\* a send method that asks the decoder for every optional field
DecodeOf_AllFlags(method, arg, response) ==
  CASE method \in {"sendSMS", "testSMS"} ->
         parseSendSMSResponse(response, JsBool(TRUE), JsBool(TRUE), JsBool(TRUE))
    [] method = "checkCredit" -> parseCheckCreditResponse(response)
    [] method \in {"checkOperator", "hlr"} -> parseOperatorResponse(response)
    [] method = "checkSMS" -> parseSMSStatusResponse(response, arg.smsId.v)
    [] method = "getPricing" -> parsePricingResponse(response)

\* the decoder a method applies to the text request() returned
DecodeOf(method, arg, response) ==
  CASE method = "sendSMS" ->
         parseSendSMSResponse(response, arg.price, arg.mccmnc, arg.credit)
    [] method = "testSMS" ->
         parseSendSMSResponse(response, arg.price, arg.mccmnc, arg.credit)
    [] method = "checkCredit" -> parseCheckCreditResponse(response)
    [] method \in {"checkOperator", "hlr"} -> parseOperatorResponse(response)
    [] method = "checkSMS" -> parseSMSStatusResponse(response, arg.smsId.v)
    [] method = "getPricing" -> parsePricingResponse(response)

\* request(): the url it fetches
RequestUrl(this, endpoint, params) ==
  this.baseUrl \o endpoint \o <<"?">> \o buildQueryString(params)

\* Response.ok as the transport sets it
ResponseOk(status) == status >= 200 /\ status <= 299

\* a catch block that reports whatever was thrown as a timeout
RequestCatch_AllTimeout(this, error) ==
  Error("Request timeout after ${timeout}ms", <<this.timeout>>)

\* the catch block without the conversion of an AbortError
RequestCatch_NoTimeout(this, error) == error

\* request(): the catch block, mapping what was thrown in the try block to
\* what request() throws
RequestCatch(this, error) ==
  IF error.name = "AbortError"
  THEN Error("Request timeout after ${timeout}ms", <<this.timeout>>)
  ELSE error

\* a finally block that leaves the timer armed
clearTimeout_Leak(timer) == timer

\* request(): the finally block, clearTimeout(timeoutId)
clearTimeout(timer) == IF timer = "armed" THEN "cleared" ELSE timer

\* what fetch or response.text() rejects with once the signal is aborted
AbortError ==
  [type |-> "DOMException", name |-> "AbortError",
   message |-> Msg("This operation was aborted", <<>>)]

\* what fetch or response.text() rejects with on a network failure
NetworkErrors ==
  {[type |-> "TypeError", name |-> "TypeError", message |-> Msg("fetch failed", <<>>)]}

NoResponse == [status |-> 0, body |-> <<>>, hasBody |-> FALSE]

NoOutcome == [ok |-> FALSE, err |-> [type |-> "none"]]

IdleCall ==
  [pc |-> "idle", method |-> "none", arg |-> [none |-> TRUE], fetches |-> <<>>,
   timer |-> "none", aborted |-> FALSE, resp |-> NoResponse,
   cause |-> [type |-> "none"], decoded |-> FALSE, outcome |-> NoOutcome]

\* ------------------------------------------------- inputs of the codec runs
Alphabet == {" ", "\n", "1", "a", "-", "."}

\* all strings over cs of length at most n
RECURSIVE StringsUpTo(_, _)
StringsUpTo(cs, n) ==
  IF n = 0 THEN {<<>>}
  ELSE LET shorter == StringsUpTo(cs, n - 1)
       IN shorter \cup {Append(s, c) : s \in shorter, c \in cs}

ResponseHeads ==
  {<<"O", "K">>, <<"E", "R", "R">>, <<"E", "R", "R", " ", "1", "0", "0">>, <<"o", "k">>, <<"O", "K", "A", "Y">>, <<"G", "A", "R", "B", "A", "G", "E">>, <<>>}

\* a head, with or without leading whitespace, followed by any short tail
EnvelopeInputs ==
  {lead \o head \o tail :
     lead \in {<<>>, <<" ">>}, head \in ResponseHeads, tail \in StringsUpTo(Alphabet, MaxTail)}

PayloadTokens == {<<"7">>, <<"0", ".", "5", "0">>, <<"a">>, <<"-", "1">>}

RECURSIVE JoinTokens(_, _)
JoinTokens(toks, sep) ==
  IF toks = <<>> THEN <<>> ELSE sep \o Head(toks) \o JoinTokens(Tail(toks), sep)

\* 'OK' followed by up to MaxTokens tokens, each after a run of whitespace
SendInputs ==
  {<<"O", "K">> \o JoinTokens(toks, sep) :
     toks \in UNION {[1..n -> PayloadTokens] : n \in 0..MaxTokens},
     sep \in {<<" ">>, <<" ", "\n">>}}

\* the number of ':'-separated parts of an operator payload
MaxParts == 4

OperatorParts == {<<>>, <<"2", "0">>, <<"T", " ", "M">>, <<"0", ".", "5">>}

RECURSIVE JoinColon(_)
JoinColon(parts) ==
  IF Len(parts) = 1 THEN parts[1] ELSE parts[1] \o <<":">> \o JoinColon(Tail(parts))

\* 'OK ' followed by 1 to MaxParts parts joined by ':'
OperatorInputs ==
  {<<"O", "K", " ">> \o JoinColon(parts) :
     parts \in UNION {[1..n -> OperatorParts] : n \in 1..MaxParts}}

\* the largest status the gateway answers with
MaxStatus == 14

\* 'OK ' followed by a status, with or without a line end
StatusInputs ==
  {<<"O", "K", " ">> \o NatToString(n) \o end : n \in 0..MaxStatus, end \in {<<>>, <<"\n">>}}

\* the ids checkSMS is asked about
SmsIds == {<<"7", "7">>, <<"a", "-", "1">>}

\* the number of entries of a pricing array
MaxEntries == 2

\* the JSON texts of the entries of a pricing array
PricingEntryTexts ==
  {<<"{", "\"", "p", "r", "i", "c", "e", "\"", ":", "0", ".", "5", "}">>, <<"{", "}">>, <<"1">>, <<"\"", "N", "L", "\"">>}

RECURSIVE JoinEntries(_, _)
JoinEntries(entries, sep) ==
  IF entries = <<>> THEN <<>>
  ELSE IF Len(entries) = 1 THEN entries[1]
  ELSE entries[1] \o sep \o JoinEntries(Tail(entries), sep)

\* the JSON text of an array of entries, compact or spaced out
PricingText(entries, sep) ==
  IF sep = <<",">> THEN <<"[">> \o JoinEntries(entries, sep) \o <<"]">>
  ELSE <<" ", "[", " ">> \o JoinEntries(entries, sep) \o <<" ", "]", "\n">>

PricingSeparators == {<<",">>, <<" ", ",", "\n">>}

PricingEntrySeqs == UNION {[1..n -> PricingEntryTexts] : n \in 0..MaxEntries}

PricingArrayInputs ==
  {PricingText(entries, sep) : entries \in PricingEntrySeqs, sep \in PricingSeparators}

\* JSON texts whose top-level value is not an array
NonArrayJsonInputs ==
  {<<"{", "}">>, <<"{", "\"", "p", "r", "i", "c", "e", "\"", ":", "0", ".", "5", "}">>, <<"1">>, <<"-", "0", ".", "5">>, <<"\"", "N", "L", "\"">>, <<"n", "u", "l", "l">>, <<"t", "r", "u", "e">>}

\* texts that begin like an array and are not JSON
BrokenArrayInputs ==
  {<<"[">>, <<"[", "1", ",", "]">>, <<"[", "1", "]", " ", "x">>, <<"[", "0", "1", "]">>, <<"[", "{", "p", "r", "i", "c", "e", ":", "1", "}", "]">>, <<"[", "1", " ", "1", "]">>}

PricingInputs == PricingArrayInputs \cup NonArrayJsonInputs \cup BrokenArrayInputs

\* the number of entries of a parameter mapping
MaxParams == 2

ParamKeys == {<<"t", "o">>, <<"a", " ", "b">>, <<"x", "=", "&">>}

ParamValues ==
  {JsUndefined, JsNull, JsBool(TRUE), JsBool(FALSE), JsNumber(0), JsNumber(5),
   JsString(<<>>), JsString(<<"1">>), JsString(<<"a", " ", "b">>), JsString(<<"a", "=", "1", "&", "b">>)}

\* the objects handed to buildQueryString: up to MaxParams entries with
\* distinct keys, in insertion order
ParamMappings ==
  UNION {{ps \in [1..n -> ParamKeys \X ParamValues] :
            \A i, j \in 1..n : i # j => ps[i][1] # ps[j][1]} : n \in 0..MaxParams}

RawInputs ==
  EnvelopeInputs \cup SendInputs \cup OperatorInputs \cup StatusInputs \cup PricingInputs

FlagValues == {JsUndefined, JsBool(TRUE), JsBool(FALSE)}

NotApplied ==
  [fn |-> "none", includePrice |-> JsUndefined, includeMccMnc |-> JsUndefined,
   includeCredit |-> JsUndefined]

\* ------------------------------------------------ inputs of the client runs
Configs ==
  {[username |-> <<"u", "s", "e", "r">>, userid |-> <<"1", "2", "3">>, handle |-> <<"h", "&", "1">>,
    baseUrl |-> o[1], timeout |-> o[2]] :
     o \in {<<JsUndefined, JsUndefined>>,
            <<JsString(<<"h", "t", "t", "p", ":", "/", "/", "g", "w">>), JsNumber(100)>>,
            <<JsUndefined, JsNumber(0)>>}}

\* the price, mccmnc and credit flags of a send request
SendFlags ==
  {<<JsUndefined, JsUndefined, JsUndefined>>,
   <<JsBool(TRUE), JsBool(TRUE), JsBool(TRUE)>>,
   <<JsBool(FALSE), JsBool(TRUE), JsUndefined>>}

SendArgs ==
  {[msg |-> JsString(<<"H", "i", " ", "y", "o", "u">>), from |-> JsString(<<"A", "p", "p">>), to |-> JsString(<<"3", "1", "6">>),
    customid |-> JsUndefined, price |-> f[1], mccmnc |-> f[2], credit |-> f[3]] :
     f \in SendFlags}

ArgsOf(method) ==
  CASE method \in {"sendSMS", "testSMS"} -> SendArgs
    [] method \in {"checkCredit", "getPricing"} -> {[none |-> TRUE]}
    [] method \in {"checkOperator", "hlr"} -> {[phoneNumber |-> JsString(<<"3", "1", "6">>)]}
    [] method = "checkSMS" -> {[smsId |-> JsString(<<"7", "7">>)]}

\* the bodies the gateway sends on success, by endpoint
OkBodies(method) ==
  CASE method \in {"sendSMS", "testSMS"} ->
         {<<"O", "K", " ", "7", "7">>, <<"O", "K", " ", "7", "7", " ", "0", ".", "5", "0", " ", "1", " ", "2", "0", "4", "1", "6", " ", "9", ".", "5">>}
    [] method = "checkCredit" -> {<<"O", "K", " ", "1", "2", "3", ".", "4", "5", "\n">>}
    [] method \in {"checkOperator", "hlr"} -> {<<"O", "K", " ", "2", "0", "4", "1", "6", ":", "T", "-", "M", "o", "b", "i", "l", "e", " ", "B", "V", ":", "0", ".", "0", "4", "5", "0">>}
    [] method = "checkSMS" -> {<<"O", "K", " ", "8">>}
    [] method = "getPricing" -> {<<"[", "{", "\"", "p", "r", "i", "c", "e", "\"", ":", "0", ".", "5", "}", "]">>}

\* the bodies the gateway sends on failure: a known retryable code, an
\* unknown code
ErrBodies == {<<"E", "R", "R", " ", "4", "0", "0", "2">>, <<" ", "E", "R", "R", " ", "9", "9">>}

\* bodies that are neither
OtherBodies == {<<"O", "K">>, <<"G", "A", "R", "B", "A", "G", "E">>}

\* the gateway's HTTP responses to a request of a method
Responses(method) ==
  [status : {200}, body : OkBodies(method) \cup ErrBodies \cup OtherBodies]
  \cup [status : {500}, body : {<<"E", "R", "R", " ", "4", "0", "0", "2">>}]
  \cup [status : {300}, body : {<<"O", "K", " ", "7", "7">>}]

\* ---------------------------------------------------------------- codec runs
InitCodec ==
  /\ raw \in RawInputs
  /\ applied = NotApplied
  /\ output = NoOutcome
  /\ config = CHOOSE cfg \in Configs : cfg.baseUrl = JsUndefined /\ cfg.timeout = JsUndefined
  /\ client = BudgetSMS(config)
  /\ calls = <<>>

ApplyParseResponse ==
  /\ applied.fn = "none"
  /\ applied' = [applied EXCEPT !.fn = "parseResponse"]
  /\ output' = parseResponse(raw)
  /\ UNCHANGED <<raw, clientVars>>

ApplyParseSendSMSResponse(includePrice, includeMccMnc, includeCredit) ==
  /\ applied.fn = "none"
  /\ applied' = [fn |-> "parseSendSMSResponse", includePrice |-> includePrice,
                 includeMccMnc |-> includeMccMnc, includeCredit |-> includeCredit]
  /\ output' = parseSendSMSResponse(raw, includePrice, includeMccMnc, includeCredit)
  /\ UNCHANGED <<raw, clientVars>>

ApplyParseCheckCreditResponse ==
  /\ applied.fn = "none"
  /\ applied' = [applied EXCEPT !.fn = "parseCheckCreditResponse"]
  /\ output' = parseCheckCreditResponse(raw)
  /\ UNCHANGED <<raw, clientVars>>

ApplyParseOperatorResponse ==
  /\ applied.fn = "none"
  /\ applied' = [applied EXCEPT !.fn = "parseOperatorResponse"]
  /\ output' = parseOperatorResponse(raw)
  /\ UNCHANGED <<raw, clientVars>>

ApplyParseSMSStatusResponse(smsId) ==
  /\ applied.fn = "none"
  /\ applied' = [fn |-> "parseSMSStatusResponse", smsId |-> smsId]
  /\ output' = parseSMSStatusResponse(raw, smsId)
  /\ UNCHANGED <<raw, clientVars>>

ApplyParsePricingResponse ==
  /\ applied.fn = "none"
  /\ applied' = [applied EXCEPT !.fn = "parsePricingResponse"]
  /\ output' = parsePricingResponse(raw)
  /\ UNCHANGED <<raw, clientVars>>

NextCodec ==
  \/ ApplyParseResponse
  \/ ApplyParseCheckCreditResponse
  \/ ApplyParseOperatorResponse
  \/ \E smsId \in SmsIds : ApplyParseSMSStatusResponse(smsId)
  \/ ApplyParsePricingResponse
  \/ \E p \in FlagValues, m, c \in {JsUndefined, JsBool(TRUE)} :
       ApplyParseSendSMSResponse(p, m, c)

SpecCodec == InitCodec /\ [][NextCodec]_vars

\* ------------------------------------------------------------ encoder runs
InitQuery ==
  /\ raw = <<>>
  /\ applied = NotApplied
  /\ output = NoOutcome
  /\ config = CHOOSE cfg \in Configs : cfg.baseUrl = JsUndefined /\ cfg.timeout = JsUndefined
  /\ client = BudgetSMS(config)
  /\ calls = <<>>

ApplyBuildQueryString(params) ==
  /\ applied.fn = "none"
  /\ applied' = [fn |-> "buildQueryString", params |-> params]
  /\ output' = Returned(buildQueryString(params))
  /\ UNCHANGED <<raw, clientVars>>

NextQuery == \E params \in ParamMappings : ApplyBuildQueryString(params)

SpecQuery == InitQuery /\ [][NextQuery]_vars

\* ------------------------------------------------- classification runs
\* the codes an error is classified for: every code of the table, its two
\* neighbours, and codes far from the table
ClassifiedCodes ==
  DOMAIN ERROR_MESSAGES
  \cup {code + d : code \in DOMAIN ERROR_MESSAGES, d \in {0 - 1, 1}}
  \cup {0, 0 - 4002, 99999}

InitErrors ==
  /\ raw = <<>>
  /\ applied = NotApplied
  /\ output = NoOutcome
  /\ config = CHOOSE cfg \in Configs : cfg.baseUrl = JsUndefined /\ cfg.timeout = JsUndefined
  /\ client = BudgetSMS(config)
  /\ calls = <<>>

ApplyIsRetryable(code) ==
  /\ applied.fn = "none"
  /\ applied' = [fn |-> "isRetryable", code |-> code]
  /\ output' = Returned(isRetryable(BudgetSMSError(code)))
  /\ UNCHANGED <<raw, clientVars>>

ApplyIsAuthenticationError(code) ==
  /\ applied.fn = "none"
  /\ applied' = [fn |-> "isAuthenticationError", code |-> code]
  /\ output' = Returned(isAuthenticationError(BudgetSMSError(code)))
  /\ UNCHANGED <<raw, clientVars>>

ApplyIsInsufficientCredits(code) ==
  /\ applied.fn = "none"
  /\ applied' = [fn |-> "isInsufficientCredits", code |-> code]
  /\ output' = Returned(isInsufficientCredits(BudgetSMSError(code)))
  /\ UNCHANGED <<raw, clientVars>>

NextErrors ==
  \/ \E code \in ClassifiedCodes : ApplyIsRetryable(code)
  \/ \E code \in ClassifiedCodes : ApplyIsAuthenticationError(code)
  \/ \E code \in ClassifiedCodes : ApplyIsInsufficientCredits(code)

SpecErrors == InitErrors /\ [][NextErrors]_vars

\* ------------------------------------------------------- validator runs
\* the longest run of one character handed to a validator
MaxRun == 17

Run(c, n) == [i \in 1..n |-> c]

\* runs of a digit or of a letter, and runs of a digit whose first or last
\* character is something else
ValidatorInputs ==
  {Run(c, n) : c \in {"0", "9", "a", "Z"}, n \in 0..MaxRun}
  \cup UNION {{[Run("1", n) EXCEPT ![i] = x] : i \in {1, n}, x \in {"+", " ", "a", "\n", "-"}} :
                n \in 1..MaxRun}

\* messages around the limits of validateMessage
MessageInputs == {Run(c, n) : c \in {"a", " "}, n \in {0, 1, 160, 611, 612, 613, 614, 1224}}

InitValidate ==
  /\ raw = <<>>
  /\ applied = NotApplied
  /\ output = NoOutcome
  /\ config = CHOOSE cfg \in Configs : cfg.baseUrl = JsUndefined /\ cfg.timeout = JsUndefined
  /\ client = BudgetSMS(config)
  /\ calls = <<>>

ApplyValidatePhoneNumber(phoneNumber) ==
  /\ applied.fn = "none"
  /\ applied' = [fn |-> "validatePhoneNumber", arg |-> phoneNumber]
  /\ output' = Returned(validatePhoneNumber(phoneNumber))
  /\ UNCHANGED <<raw, clientVars>>

ApplyValidateSender(sender) ==
  /\ applied.fn = "none"
  /\ applied' = [fn |-> "validateSender", arg |-> sender]
  /\ output' = Returned(validateSender(sender))
  /\ UNCHANGED <<raw, clientVars>>

ApplyValidateMessage(message) ==
  /\ applied.fn = "none"
  /\ applied' = [fn |-> "validateMessage", arg |-> message]
  /\ output' = Returned(validateMessage(message))
  /\ UNCHANGED <<raw, clientVars>>

NextValidate ==
  \/ \E phoneNumber \in ValidatorInputs : ApplyValidatePhoneNumber(phoneNumber)
  \/ \E sender \in ValidatorInputs : ApplyValidateSender(sender)
  \/ \E message \in ValidatorInputs \cup MessageInputs : ApplyValidateMessage(message)

SpecValidate == InitValidate /\ [][NextValidate]_vars

\* --------------------------------------------------------------- client runs
Init ==
  /\ config \in Configs
  /\ client = BudgetSMS(config)
  /\ calls = [c \in 1..MaxCalls |-> IdleCall]
  /\ raw = <<>>
  /\ applied = NotApplied
  /\ output = NoOutcome

\* a method is invoked: it builds its parameters and enters request(), which
\* builds the url, arms the timer and calls fetch
Call(c, method, arg) ==
  /\ calls[c].pc = "idle"
  /\ \A d \in 1..(c - 1) : calls[d].pc # "idle"
  /\ calls' = [calls EXCEPT ![c] =
       [@ EXCEPT !.pc = "fetching", !.method = method, !.arg = arg,
                 !.timer = "armed",
                 !.fetches = Append(@,
                   [method |-> "GET",
                    url |-> RequestUrl(client, EndpointOf(method),
                                       RequestParamsOf(client, method, arg))])]]
  /\ UNCHANGED <<config, client, codecVars>>

\* request() leaves through its catch and finally blocks with a thrown error
RequestThrows(call, error) ==
  [call EXCEPT !.pc = "done", !.timer = clearTimeout(@),
               !.outcome = Thrown(RequestCatch(client, error))]

\* a method that calls request() again when the gateway reports a
\* retryable code
RequestReturns_Retry(call, text) ==
  LET decoded == DecodeOf(call.method, call.arg, text)
  IN IF ~decoded.ok /\ decoded.err.type = "BudgetSMSError"
        /\ decoded.err.code \in {4002, 4003, 4006} /\ Len(call.fetches) < 2
     THEN [call EXCEPT !.pc = "fetching", !.timer = "armed", !.resp = NoResponse,
                       !.fetches = Append(@, @[1])]
     ELSE [call EXCEPT !.pc = "done", !.timer = clearTimeout(@), !.decoded = TRUE,
                       !.outcome = decoded]

\* request() returns the text and the method decodes it
RequestReturns(call, text) ==
  [call EXCEPT !.pc = "done", !.timer = clearTimeout(@), !.decoded = TRUE,
               !.outcome = DecodeOf(call.method, call.arg, text)]

\* fetch resolving, with only the statuses from 400 on taken as failures
FetchResolve_From400(c, response) ==
  /\ calls[c].pc = "fetching"
  /\ ~calls[c].aborted
  /\ LET got == [status |-> response.status, body |-> response.body, hasBody |-> TRUE]
     IN calls' = [calls EXCEPT ![c] =
          IF response.status >= 400
          THEN RequestThrows([@ EXCEPT !.resp = got],
                             Error("HTTP error! status: ", <<response.status>>))
          ELSE [@ EXCEPT !.pc = "reading", !.resp = got]]
  /\ UNCHANGED <<config, client, codecVars>>

\* fetch resolves with the response's status line and headers
FetchResolve(c, response) ==
  /\ calls[c].pc = "fetching"
  /\ ~calls[c].aborted
  /\ LET got == [status |-> response.status, body |-> response.body, hasBody |-> TRUE]
     IN calls' = [calls EXCEPT ![c] =
          IF ~ResponseOk(response.status)
          THEN RequestThrows([@ EXCEPT !.resp = got],
                             Error("HTTP error! status: ", <<response.status>>))
          ELSE [@ EXCEPT !.pc = "reading", !.resp = got]]
  /\ UNCHANGED <<config, client, codecVars>>

\* fetch rejects: the connection failed
FetchReject(c, cause) ==
  /\ calls[c].pc = "fetching"
  /\ ~calls[c].aborted
  /\ calls' = [calls EXCEPT ![c] = RequestThrows([@ EXCEPT !.cause = cause], cause)]
  /\ UNCHANGED <<config, client, codecVars>>

\* response.text() resolves: the body has been read in full
BodyRead(c) ==
  /\ calls[c].pc = "reading"
  /\ ~calls[c].aborted
  /\ calls' = [calls EXCEPT ![c] = RequestReturns(@, @.resp.body)]
  /\ UNCHANGED <<config, client, codecVars>>

\* response.text() rejects: the connection failed while the body was read
BodyFail(c, cause) ==
  /\ calls[c].pc = "reading"
  /\ ~calls[c].aborted
  /\ calls' = [calls EXCEPT ![c] = RequestThrows([@ EXCEPT !.cause = cause], cause)]
  /\ UNCHANGED <<config, client, codecVars>>

\* an AbortController kept on the instance: the expiry of one call's timer
\* aborts every request in flight
TimerFire_SharedController(c) ==
  /\ calls[c].timer = "armed"
  /\ calls' = [d \in DOMAIN calls |->
       IF d = c THEN [calls[d] EXCEPT !.timer = "fired", !.aborted = TRUE]
       ELSE IF calls[d].pc \in {"fetching", "reading"}
            THEN [calls[d] EXCEPT !.aborted = TRUE]
            ELSE calls[d]]
  /\ UNCHANGED <<config, client, codecVars>>

\* a timer callback that does not abort the controller
TimerFire_NoAbort(c) ==
  /\ calls[c].timer = "armed"
  /\ calls' = [calls EXCEPT ![c] = [@ EXCEPT !.timer = "fired"]]
  /\ UNCHANGED <<config, client, codecVars>>

\* the timer set by setTimeout expires: controller.abort()
TimerFire(c) ==
  /\ calls[c].timer = "armed"
  /\ calls' = [calls EXCEPT ![c] = [@ EXCEPT !.timer = "fired", !.aborted = TRUE]]
  /\ UNCHANGED <<config, client, codecVars>>

\* the aborted fetch or body read rejects with an AbortError
AbortReject(c) ==
  /\ calls[c].pc \in {"fetching", "reading"}
  /\ calls[c].aborted
  /\ calls' = [calls EXCEPT ![c] = RequestThrows([@ EXCEPT !.cause = AbortError], AbortError)]
  /\ UNCHANGED <<config, client, codecVars>>

Next ==
  \/ \E c \in DOMAIN calls : \E method \in Methods : \E arg \in ArgsOf(method) :
       Call(c, method, arg)
  \/ \E c \in DOMAIN calls :
       /\ calls[c].method \in Methods
       /\ \E response \in Responses(calls[c].method) : FetchResolve(c, response)
  \/ \E c \in DOMAIN calls : \E cause \in NetworkErrors : FetchReject(c, cause)
  \/ \E c \in DOMAIN calls : BodyRead(c)
  \/ \E c \in DOMAIN calls : \E cause \in NetworkErrors : BodyFail(c, cause)
  \/ \E c \in DOMAIN calls : TimerFire(c)
  \/ \E c \in DOMAIN calls : AbortReject(c)

Spec == Init /\ [][Next]_vars

\* --------------------------------------------- calls in flight together
\* the number of calls made on one instance without awaiting the earlier ones
MaxConcurrent == 2

\* the methods called together, and what the gateway answers to them
ConcMethods == {"checkCredit", "checkSMS"}

ConcConfigs == {cfg \in Configs : cfg.baseUrl = JsUndefined}

ConcResponses(method) ==
  {r \in Responses(method) :
     \/ r.status = 500
     \/ r.status = 200 /\ r.body \in OkBodies(method) \cup {<<"E", "R", "R", " ", "4", "0", "0", "2">>}}

InitConc ==
  /\ config \in ConcConfigs
  /\ client = BudgetSMS(config)
  /\ calls = [c \in 1..MaxConcurrent |-> IdleCall]
  /\ raw = <<>>
  /\ applied = NotApplied
  /\ output = NoOutcome

NextConc ==
  \/ \E c \in DOMAIN calls : \E method \in ConcMethods : \E arg \in ArgsOf(method) :
       Call(c, method, arg)
  \/ \E c \in DOMAIN calls :
       /\ calls[c].method \in Methods
       /\ \E response \in ConcResponses(calls[c].method) : FetchResolve(c, response)
  \/ \E c \in DOMAIN calls : \E cause \in NetworkErrors : FetchReject(c, cause)
  \/ \E c \in DOMAIN calls : BodyRead(c)
  \/ \E c \in DOMAIN calls : \E cause \in NetworkErrors : BodyFail(c, cause)
  \/ \E c \in DOMAIN calls : TimerFire(c)
  \/ \E c \in DOMAIN calls : AbortReject(c)

SpecConc == InitConc /\ [][NextConc]_vars

\* ------------------------------------------- a send and its test, side by side
\* sendSMS is called first and testSMS second, with the parameters of the
\* first call
InitPair ==
  /\ config \in Configs
  /\ client = BudgetSMS(config)
  /\ calls = [c \in 1..2 |-> IdleCall]
  /\ raw = <<>>
  /\ applied = NotApplied
  /\ output = NoOutcome

NextPair ==
  \/ \E arg \in ArgsOf("sendSMS") : Call(1, "sendSMS", arg)
  \/ Call(2, "testSMS", calls[1].arg)
  \/ \E c \in DOMAIN calls :
       /\ calls[c].method \in Methods
       /\ \E response \in Responses(calls[c].method) : FetchResolve(c, response)
  \/ \E c \in DOMAIN calls : \E cause \in NetworkErrors : FetchReject(c, cause)
  \/ \E c \in DOMAIN calls : BodyRead(c)
  \/ \E c \in DOMAIN calls : \E cause \in NetworkErrors : BodyFail(c, cause)
  \/ \E c \in DOMAIN calls : TimerFire(c)
  \/ \E c \in DOMAIN calls : AbortReject(c)

SpecPair == InitPair /\ [][NextPair]_vars

\* ------------------------------------------------ calls under a fair schedule
\* the number of calls followed to their completion
MaxLive == 1

\* the event loop runs the callback of a timer that stays armed, and the
\* transport settles a fetch or a body read whose signal is aborted
Fairness ==
  \A c \in 1..MaxLive : WF_vars(TimerFire(c)) /\ WF_vars(AbortReject(c))

InitLive ==
  /\ config \in {cfg \in Configs : cfg.baseUrl # JsUndefined}
  /\ client = BudgetSMS(config)
  /\ calls = [c \in 1..MaxLive |-> IdleCall]
  /\ raw = <<>>
  /\ applied = NotApplied
  /\ output = NoOutcome

NextLive ==
  \/ \E c \in DOMAIN calls : \E method \in Methods : \E arg \in ArgsOf(method) :
       Call(c, method, arg)
  \/ \E c \in DOMAIN calls :
       /\ calls[c].method \in Methods
       /\ \E response \in ConcResponses(calls[c].method) : FetchResolve(c, response)
  \/ \E c \in DOMAIN calls : \E cause \in NetworkErrors : FetchReject(c, cause)
  \/ \E c \in DOMAIN calls : BodyRead(c)
  \/ \E c \in DOMAIN calls : \E cause \in NetworkErrors : BodyFail(c, cause)
  \/ \E c \in DOMAIN calls : TimerFire(c)
  \/ \E c \in DOMAIN calls : AbortReject(c)

SpecLive == InitLive /\ [][NextLive]_vars /\ Fairness

\* ------------------------------------------------------------- properties
\* the vocabulary of the error taxonomy
IsProtocolError(o) == ~o.ok /\ o.err.type = "BudgetSMSError"

IsPlainError(o, text) == ~o.ok /\ o.err.type = "Error" /\ o.err.message.text = text

MalformedTexts ==
  {"Invalid error response format: ", "Unexpected API response format: ",
   "Invalid send SMS response: no SMS ID found", "Invalid credit response: ",
   "Invalid operator response format: ", "Invalid status response: ",
   "Failed to parse pricing response: "}

IsMalformedError(o) == ~o.ok /\ o.err.type = "Error" /\ o.err.message.text \in MalformedTexts

IsTimeoutError(o) == IsPlainError(o, "Request timeout after ${timeout}ms")

\* a decimal integer: an optional minus sign and one or more digits
IsDecimal(d) ==
  LET u == IF d # <<>> /\ Head(d) = "-" THEN Tail(d) ELSE d
  IN u # <<>> /\ \A i \in 1..Len(u) : u[i] \in DigitChars

RECURSIVE DecimalValue(_)
DecimalValue(d) ==
  IF d = <<>> THEN 0
  ELSE IF Head(d) = "-" THEN 0 - DecimalValue(Tail(d))
  ELSE 10 * DecimalValue(SubSeq(d, 1, Len(d) - 1)) + DigitVal(d[Len(d)])

\* t is 'ERR ' followed by a decimal integer
IsErrResponse(t) == StartsWith(t, <<"E", "R", "R", " ">>) /\ IsDecimal(SubSeq(t, 5, Len(t)))

ErrCodeOf(t) == DecimalValue(SubSeq(t, 5, Len(t)))

IsTrimmed(s) == s = <<>> \/ (s[1] \notin WhiteSpace /\ s[Len(s)] \notin WhiteSpace)

\* t is 'OK ', then whitespace only, then p
IsOkPayload(t, p) ==
  /\ StartsWith(t, <<"O", "K", " ">>)
  /\ Len(p) <= Len(t) - 3
  /\ SubSeq(t, Len(t) - Len(p) + 1, Len(t)) = p
  /\ \A i \in 4..(Len(t) - Len(p)) : t[i] \in WhiteSpace

\* C1: for every input that after trimming is 'ERR ' followed by a decimal
\* integer, parseResponse throws a BudgetSMSError whose code is that integer,
\* known or not, and whose message is the table's message of the code or,
\* when the table has none, the fallback 'BudgetSMS API error: <code>'.
C1_ErrCodeCarried ==
  (applied.fn = "parseResponse" /\ IsErrResponse(Trim(raw))) =>
    LET code == ErrCodeOf(Trim(raw))
    IN /\ IsProtocolError(output)
       /\ output.err.code = code
       /\ output.err.message =
            IF code \in DOMAIN ERROR_MESSAGES
            THEN [text |-> ERROR_MESSAGES[code], args |-> <<>>]
            ELSE [text |-> "BudgetSMS API error: ", args |-> <<code>>]

\* an 'ERR <integer>' input with a code the table does not know was decoded
C1_Witness ==
  /\ applied.fn = "parseResponse"
  /\ IsErrResponse(Trim(raw))
  /\ ErrCodeOf(Trim(raw)) \notin DOMAIN ERROR_MESSAGES
  /\ IsProtocolError(output)

\* C2: for input that after trimming starts with 'OK ' parseResponse returns
\* the trimmed remainder, for input that is exactly 'OK' after trimming it
\* returns the empty string, and in neither case does it throw.
C2_OkPayload ==
  applied.fn = "parseResponse" =>
    /\ StartsWith(Trim(raw), <<"O", "K", " ">>) =>
         (output.ok /\ IsTrimmed(output.val) /\ IsOkPayload(Trim(raw), output.val))
    /\ Trim(raw) = <<"O", "K">> => (output.ok /\ output.val = <<>>)

\* an input with whitespace around a non-empty payload was decoded
C2_Witness ==
  /\ applied.fn = "parseResponse"
  /\ StartsWith(Trim(raw), <<"O", "K", " ">>)
  /\ raw # Trim(raw)
  /\ output.ok
  /\ output.val # <<>>
  /\ Len(output.val) < Len(Trim(raw)) - 3

\* C3: parseResponse throws a MalformedError for every input that after
\* trimming is neither 'OK', nor starts with 'OK ', nor is 'ERR ' followed by
\* a decimal integer: 'invalid error response format' when it starts with
\* 'ERR ', 'unexpected API response format' for any other shape.
C3_MalformedRejected ==
  (/\ applied.fn = "parseResponse"
   /\ Trim(raw) # <<"O", "K">>
   /\ ~StartsWith(Trim(raw), <<"O", "K", " ">>)
   /\ ~IsErrResponse(Trim(raw))) =>
    IF StartsWith(Trim(raw), <<"E", "R", "R", " ">>)
    THEN IsPlainError(output, "Invalid error response format: ")
    ELSE IsPlainError(output, "Unexpected API response format: ")

\* the whitespace-separated tokens of s, in order
RECURSIVE TokensOf(_)
TokensOf(s) ==
  IF s = <<>> THEN <<>>
  ELSE IF Head(s) \in WhiteSpace THEN TokensOf(Tail(s))
  ELSE LET n == CHOOSE k \in 1..Len(s) :
                  /\ \A i \in 1..k : s[i] \notin WhiteSpace
                  /\ (k = Len(s) \/ s[k + 1] \in WhiteSpace)
       IN <<SubSeq(s, 1, n)>> \o TokensOf(SubSeq(s, n + 1, Len(s)))

\* a flag of a send request is set
Want(flag) == flag.t = "boolean" /\ flag.v

\* C4: for an OK send response whose payload holds the message ID followed
\* by exactly the fields the flags call for, parseSendSMSResponse returns
\* smsId = the first token and assigns the next tokens left to right to
\* price and parts (when price is wanted), mccMnc (when wanted) and credit
\* (when wanted); a field whose flag is not set is absent from the result.
C4_SendFieldsPositional ==
  (applied.fn = "parseSendSMSResponse" /\ StartsWith(Trim(raw), <<"O", "K", " ">>)) =>
    LET toks == TokensOf(SubSeq(Trim(raw), 4, Len(Trim(raw))))
        wp == Want(applied.includePrice)
        wm == Want(applied.includeMccMnc)
        wc == Want(applied.includeCredit)
        pm == IF wp THEN 4 ELSE 2
        pc == IF wm THEN pm + 1 ELSE pm
        n == 1 + (IF wp THEN 2 ELSE 0) + (IF wm THEN 1 ELSE 0) + (IF wc THEN 1 ELSE 0)
    IN Len(toks) = n =>
         /\ output.ok
         /\ output.val.smsId = toks[1]
         /\ IF wp
            THEN /\ {"price", "parts"} \subseteq DOMAIN output.val
                 /\ output.val.price = parseFloat(toks[2])
                 /\ output.val.parts = parseInt(toks[3])
            ELSE {"price", "parts"} \cap DOMAIN output.val = {}
         /\ IF wm
            THEN "mccMnc" \in DOMAIN output.val /\ output.val.mccMnc = toks[pm]
            ELSE "mccMnc" \notin DOMAIN output.val
         /\ IF wc
            THEN "credit" \in DOMAIN output.val /\ output.val.credit = parseFloat(toks[pc])
            ELSE "credit" \notin DOMAIN output.val

\* a payload of five tokens was decoded with all three flags set
C4_Witness ==
  /\ applied.fn = "parseSendSMSResponse"
  /\ Want(applied.includePrice) /\ Want(applied.includeMccMnc) /\ Want(applied.includeCredit)
  /\ StartsWith(Trim(raw), <<"O", "K", " ">>)
  /\ Len(TokensOf(SubSeq(Trim(raw), 4, Len(Trim(raw))))) = 5
  /\ output.ok
  /\ output.val.mccMnc = <<"0", ".", "5", "0">>
  /\ ~output.val.credit.nan

\* C5: parseSendSMSResponse throws a MalformedError when the OK payload is
\* empty (a bare 'OK'); no result with an empty smsId is ever returned.
C5_EmptyPayloadRejected ==
  applied.fn = "parseSendSMSResponse" =>
    /\ Trim(raw) = <<"O", "K">> => IsMalformedError(output)
    /\ output.ok => output.val.smsId # <<>>

C7_TimerDisarmed ==
  \A c \in DOMAIN calls : calls[c].pc = "done" => calls[c].timer \in {"cleared", "fired"}

\* a call ended in success with its timer cleared
C7_Witness ==
  \E c \in DOMAIN calls :
    /\ calls[c].pc = "done"
    /\ calls[c].timer = "cleared"
    /\ calls[c].outcome.ok

\* C8: every invocation of a client method issues exactly one GET request,
\* whatever its outcome; no failure is followed by a second request.
C8_OneRequestPerCall ==
  \A c \in DOMAIN calls :
    IF calls[c].pc = "idle" THEN calls[c].fetches = <<>>
    ELSE Len(calls[c].fetches) = 1 /\ calls[c].fetches[1].method = "GET"

\* a call failed with the retryable code 4002 after its one request
C8_Witness ==
  \E c \in DOMAIN calls :
    /\ calls[c].pc = "done"
    /\ IsProtocolError(calls[c].outcome)
    /\ calls[c].outcome.err.code = 4002
    /\ Len(calls[c].fetches) = 1

\* C9: when the HTTP status is not 2xx the call fails with an error carrying
\* that status and the body is never decoded, whatever it reads; when the
\* transport fails with a network error the call fails with that cause.
C9_TransportErrorsSurface ==
  \A c \in DOMAIN calls :
    calls[c].pc = "done" =>
      /\ (calls[c].resp.hasBody /\ calls[c].resp.status \notin 200..299) =>
           /\ IsPlainError(calls[c].outcome, "HTTP error! status: ")
           /\ calls[c].outcome.err.message.args = <<calls[c].resp.status>>
           /\ ~calls[c].decoded
      /\ calls[c].cause \in NetworkErrors =>
           (calls[c].outcome = Thrown(calls[c].cause) /\ ~calls[c].decoded)

\* a 500 response whose body reads 'ERR 4002' ended the call with the HTTP
\* error
C9_Witness ==
  \E c \in DOMAIN calls :
    /\ calls[c].pc = "done"
    /\ calls[c].resp.status = 500
    /\ calls[c].resp.body = <<"E", "R", "R", " ", "4", "0", "0", "2">>
    /\ IsPlainError(calls[c].outcome, "HTTP error! status: ")

\* C10: when the gateway answers any of the seven methods with 'ERR <code>'
\* over a successful HTTP exchange, the call fails with a BudgetSMSError
\* carrying exactly that code.
C10_ProtocolErrorPropagates ==
  \A c \in DOMAIN calls :
    (/\ calls[c].pc = "done"
     /\ calls[c].decoded
     /\ IsErrResponse(Trim(calls[c].resp.body))) =>
      /\ IsProtocolError(calls[c].outcome)
      /\ calls[c].outcome.err.code = ErrCodeOf(Trim(calls[c].resp.body))

\* getPricing was answered with an 'ERR <code>' body and failed with the code
C10_Witness ==
  \E c \in DOMAIN calls :
    /\ calls[c].pc = "done"
    /\ calls[c].method = "getPricing"
    /\ calls[c].decoded
    /\ IsErrResponse(Trim(calls[c].resp.body))
    /\ IsProtocolError(calls[c].outcome)

\* what a finished call yields when read off its own record alone: its own
\* timer, its own transport failure, its own response and its own argument
OwnOutcome(call) ==
  IF call.timer = "fired"
  THEN Thrown(Error("Request timeout after ${timeout}ms", <<BudgetSMS(config).timeout>>))
  ELSE IF call.cause \in NetworkErrors THEN Thrown(call.cause)
  ELSE IF ~(call.resp.status >= 200 /\ call.resp.status <= 299)
  THEN Thrown(Error("HTTP error! status: ", <<call.resp.status>>))
  ELSE DecodeOf(call.method, call.arg, call.resp.body)

\* a step belongs to one call: every other call's record is left as it was
OneCallSteps ==
  \E c \in DOMAIN calls : \A d \in DOMAIN calls \ {c} : calls'[d] = calls[d]

\* C11: for any interleaving of calls in flight together on one client, each
\* call's outcome is the one fixed by its own parameters and its own
\* response; the timeout, cancellation or failure of one call never cancels
\* or changes another; and no call changes the client's configuration
\* (credentials, base URL, timeout).
C11_CallsIndependent ==
  /\ [](\A c \in DOMAIN calls :
          /\ calls[c].pc = "done" => calls[c].outcome = OwnOutcome(calls[c])
          /\ calls[c].aborted => calls[c].timer = "fired")
  /\ [](client = BudgetSMS(config))
  /\ [][OneCallSteps /\ config' = config /\ client' = client]_vars

\* two calls made together are both over: the timer of the first expired
\* and it failed with a timeout, the second was never aborted and returned
\* its decoded answer
C11_Witness ==
  /\ Len(calls) >= 2
  /\ calls[1].pc = "done"
  /\ calls[1].timer = "fired"
  /\ IsTimeoutError(calls[1].outcome)
  /\ calls[2].pc = "done"
  /\ ~calls[2].aborted
  /\ calls[2].timer = "cleared"
  /\ calls[2].outcome.ok

\* the text of a decimal number: an optional sign, then digits with an
\* optional '.' and fraction, or a '.' and a fraction; nothing else
IsNumberText(p) ==
  LET u == IF p # <<>> /\ Head(p) \in {"+", "-"} THEN Tail(p) ELSE p
      dots == {i \in 1..Len(u) : u[i] = "."}
  IN /\ \A i \in 1..Len(u) : u[i] \in DigitChars \cup {"."}
     /\ Cardinality(dots) <= 1
     /\ \E i \in 1..Len(u) : u[i] \in DigitChars

\* the number such a text denotes
NumberValue(p) ==
  LET neg == Head(p) = "-"
      u == IF Head(p) \in {"+", "-"} THEN Tail(p) ELSE p
      digits == SelectSeq(u, LAMBDA ch : ch # ".")
      dot == IF \E i \in 1..Len(u) : u[i] = "."
             THEN CHOOSE i \in 1..Len(u) : u[i] = "." ELSE Len(u)
      v == DecimalValue(digits)
  IN Normalize(IF neg THEN 0 - v ELSE v, Len(u) - dot)

\* the payload of an input that after trimming is 'OK' or starts with 'OK '
OkPayloadOf(t) == Trim(SubSeq(t, 3, Len(t)))

IsOkResponse(t) == t = <<"O", "K">> \/ StartsWith(t, <<"O", "K", " ">>)

\* C12: for an OK response parseCheckCreditResponse returns the payload
\* parsed as a number as the credit when the payload is a number, and throws
\* the 'invalid credit response' MalformedError whenever the payload is not
\* a valid number, the empty payload of a bare 'OK' included.
C12_CreditDecoded ==
  (applied.fn = "parseCheckCreditResponse" /\ IsOkResponse(Trim(raw))) =>
    LET p == OkPayloadOf(Trim(raw))
    IN IF IsNumberText(p)
       THEN output.ok /\ output.val.credit = NumberValue(p)
       ELSE IsPlainError(output, "Invalid credit response: ")

\* the positions of the ':' characters of p, and the k-th of them (0 before
\* the first character, one past the last when p has fewer than k)
ColonsOf(p) == {i \in 1..Len(p) : p[i] = ":"}

NthColon(p, k) ==
  IF k = 0 THEN 0
  ELSE IF Cardinality(ColonsOf(p)) < k THEN Len(p) + 1
  ELSE CHOOSE i \in ColonsOf(p) : Cardinality({j \in ColonsOf(p) : j < i}) = k - 1

\* the text between the (k-1)-th and the k-th ':' of p
FieldOf(p, k) == SubSeq(p, NthColon(p, k - 1) + 1, NthColon(p, k) - 1)

\* C13: parseOperatorResponse splits the payload of an OK response on ':';
\* with three or more parts it returns the first as mccMnc, the second as
\* operatorName and the third parsed as a number as messageCost, ignoring
\* any further parts; with fewer than three parts it throws the 'invalid
\* operator response format' MalformedError.
C13_OperatorFields ==
  (applied.fn = "parseOperatorResponse" /\ IsOkResponse(Trim(raw))) =>
    LET p == OkPayloadOf(Trim(raw))
    IN IF Cardinality(ColonsOf(p)) >= 2
       THEN /\ output.ok
            /\ output.val.mccMnc = FieldOf(p, 1)
            /\ output.val.operatorName = FieldOf(p, 2)
            /\ output.val.messageCost = parseFloat(FieldOf(p, 3))
       ELSE /\ IsPlainError(output, "Invalid operator response format: ")
            /\ output.err.message.args = <<p>>

\* a payload of four parts was decoded: the fourth part is in none of the
\* fields returned
C13_Witness ==
  /\ applied.fn = "parseOperatorResponse"
  /\ IsOkResponse(Trim(raw))
  /\ Cardinality(ColonsOf(OkPayloadOf(Trim(raw)))) = 3
  /\ FieldOf(OkPayloadOf(Trim(raw)), 4) # <<>>
  /\ output.ok
  /\ output.val.operatorName = <<"T", " ", "M">>
  /\ ~isNaN(output.val.messageCost)

\* C14: for every OK response whose payload is an integer,
\* parseSMSStatusResponse returns the smsId it was given and that integer as
\* the status, whether or not the integer is a documented delivery status
\* (9 and 10 pass through).
C14_StatusPassesThrough ==
  (/\ applied.fn = "parseSMSStatusResponse"
   /\ IsOkResponse(Trim(raw))
   /\ IsDecimal(OkPayloadOf(Trim(raw)))) =>
    /\ output.ok
    /\ output.val.smsId = applied.smsId
    /\ output.val.status = DecimalValue(OkPayloadOf(Trim(raw)))

\* the status 9 or 10, which the gateway does not document, was returned
C14_Witness ==
  /\ applied.fn = "parseSMSStatusResponse"
  /\ IsDecimal(OkPayloadOf(Trim(raw)))
  /\ output.ok
  /\ output.val.status \in {9, 10}
  /\ output.val.smsId = <<"a", "-", "1">>

\* C15: when the trimmed input of parsePricingResponse starts with 'ERR ',
\* the caller receives exactly what the generic decoder throws for it (the
\* BudgetSMSError with the gateway's code for 'ERR <integer>'): the JSON
\* branch is never attempted and the error is never rewrapped as a 'failed
\* to parse pricing response' MalformedError.
C15_PricingErrorPassesThrough ==
  (applied.fn = "parsePricingResponse" /\ StartsWith(Trim(raw), <<"E", "R", "R", " ">>)) =>
    /\ ~output.ok
    /\ output = parseResponse(raw)
    /\ output.err.type = "Error" =>
         output.err.message.text = "Invalid error response format: "
    /\ IsErrResponse(Trim(raw)) =>
         (IsProtocolError(output) /\ output.err.code = ErrCodeOf(Trim(raw)))

\* an 'ERR <integer>' input was handed to parsePricingResponse and the
\* BudgetSMSError came out
C15_Witness ==
  /\ applied.fn = "parsePricingResponse"
  /\ IsErrResponse(Trim(raw))
  /\ raw # Trim(raw)
  /\ IsProtocolError(output)
  /\ output.err.code = 100

\* the value of an entry of a pricing array, by its JSON text
EntryValueOf(text) ==
  CASE text = <<"{", "\"", "p", "r", "i", "c", "e", "\"", ":", "0", ".", "5", "}">> ->
         [t |-> "object", v |-> << <<<<"p", "r", "i", "c", "e">>, [t |-> "number", v |-> [nan |-> FALSE, m |-> 5, e |-> 1]]>> >>]
    [] text = <<"{", "}">> -> [t |-> "object", v |-> <<>>]
    [] text = <<"1">> -> [t |-> "number", v |-> [nan |-> FALSE, m |-> 1, e |-> 0]]
    [] text = <<"\"", "N", "L", "\"">> -> [t |-> "string", v |-> <<"N", "L">>]

\* the first character of s that is not whitespace, "" when there is none
FirstNonBlank(s) == IF Trim(s) = <<>> THEN "" ELSE Trim(s)[1]

\* C16: for input that does not start with 'ERR ', parsePricingResponse
\* returns the parsed entries unchanged when the whole raw text is a JSON
\* array, and throws a MalformedError whose message begins 'failed to parse
\* pricing response: ' both when the text is not valid JSON and when its
\* top-level value is valid JSON but not an array (object, number, string,
\* null); it never returns a non-array value.
C16_PricingArrayOrMalformed ==
  (applied.fn = "parsePricingResponse" /\ ~StartsWith(Trim(raw), <<"E", "R", "R", " ">>)) =>
    /\ \A entries \in PricingEntrySeqs, sep \in PricingSeparators :
         raw = PricingText(entries, sep) =>
           /\ output.ok
           /\ output.val = [i \in 1..Len(entries) |-> EntryValueOf(entries[i])]
    /\ FirstNonBlank(raw) # "[" => IsPlainError(output, "Failed to parse pricing response: ")
    /\ raw \in NonArrayJsonInputs =>
         output.err.message.args = <<Msg("Pricing response is not an array", <<>>)>>
    /\ raw \in BrokenArrayInputs =>
         /\ IsPlainError(output, "Failed to parse pricing response: ")
         /\ output.err.message.args[1].text # "Pricing response is not an array"
    /\ output.ok \/ IsPlainError(output, "Failed to parse pricing response: ")

\* an array of two entries, an object and a bare number, written with
\* whitespace around it, was returned
C16_Witness ==
  /\ applied.fn = "parsePricingResponse"
  /\ raw # Trim(raw)
  /\ output.ok
  /\ Len(output.val) = 2
  /\ output.val[1].t = "object"
  /\ output.val[1].v # <<>>
  /\ output.val[2].t = "number"

\* the pieces of s between the occurrences of the character ch
RECURSIVE SplitAt(_, _)
SplitAt(s, ch) ==
  IF \A i \in 1..Len(s) : s[i] # ch THEN <<s>>
  ELSE LET n == CHOOSE i \in 1..Len(s) : s[i] = ch /\ \A j \in 1..(i - 1) : s[j] # ch
       IN <<SubSeq(s, 1, n - 1)>> \o SplitAt(SubSeq(s, n + 1, Len(s)), ch)

\* the character a percent-escape stands for
UriUnescape(hex) ==
  CASE hex = <<"2", "0">> -> " "
    [] hex = <<"0", "A">> -> "\n"
    [] hex = <<"2", "5">> -> "%"
    [] hex = <<"2", "6">> -> "&"
    [] hex = <<"2", "B">> -> "+"
    [] hex = <<"2", "F">> -> "/"
    [] hex = <<"3", "A">> -> ":"
    [] hex = <<"3", "D">> -> "="
    [] hex = <<"3", "F">> -> "?"
    [] OTHER -> "?"

RECURSIVE PercentDecode(_)
PercentDecode(s) ==
  IF s = <<>> THEN <<>>
  ELSE IF Head(s) = "%" /\ Len(s) >= 3
  THEN <<UriUnescape(SubSeq(s, 2, 3))>> \o PercentDecode(SubSeq(s, 4, Len(s)))
  ELSE <<Head(s)>> \o PercentDecode(Tail(s))

\* the pairs of a query string, and the two sides of a pair around its
\* first '='
QueryPairsOf(q) == IF q = <<>> THEN <<>> ELSE SplitAt(q, "&")

KeyPart(pair) ==
  IF \A i \in 1..Len(pair) : pair[i] # "=" THEN pair
  ELSE SubSeq(pair, 1, (CHOOSE i \in 1..Len(pair) :
                          pair[i] = "=" /\ \A j \in 1..(i - 1) : pair[j] # "=") - 1)

ValuePart(pair) == SubSeq(pair, Len(KeyPart(pair)) + 2, Len(pair))

\* the decoded query string: the set of its [key, value] pairs
DecodeQuery(q) ==
  LET pairs == QueryPairsOf(q)
  IN {LET key == KeyPart(pairs[i])
      IN <<PercentDecode(key), PercentDecode(SubSeq(pairs[i], Len(key) + 2, Len(pairs[i])))>> :
        i \in 1..Len(pairs)}

IsPresent(value) == value.t \notin {"undefined", "null"}

PresentEntries(params) == SelectSeq(params, LAMBDA e : IsPresent(e[2]))

\* C17: for every parameter mapping the output of buildQueryString has
\* exactly one key=value pair for each entry whose value is present and no
\* pair for an entry whose value is absent (undefined or null), under any
\* key name; a mapping with only absent values encodes to the empty string.
C17_OnePairPerPresentEntry ==
  applied.fn = "buildQueryString" =>
    LET present == PresentEntries(applied.params)
        pairs == QueryPairsOf(output.val)
    IN /\ Len(pairs) = Len(present)
       /\ \A i \in 1..Len(pairs) : Len(SplitAt(pairs[i], "=")) = 2
       /\ {PercentDecode(KeyPart(pairs[i])) : i \in 1..Len(pairs)}
            = {present[i][1] : i \in 1..Len(present)}
       /\ present = <<>> => output.val = <<>>

\* a mapping with an absent entry and a present entry whose value is the
\* empty string, false or 0 was encoded into one pair
C17_Witness ==
  /\ applied.fn = "buildQueryString"
  /\ Len(applied.params) = 2
  /\ ~IsPresent(applied.params[1][2])
  /\ IsPresent(applied.params[2][2])
  /\ Falsy(applied.params[2][2])
  /\ Len(QueryPairsOf(output.val)) = 1

\* C18: buildQueryString encodes a boolean value true as exactly '1' and
\* false as exactly '0' under every key; no other representation of a
\* boolean is emitted, and a false value is encoded, not omitted.
C18_BooleansAsOneZero ==
  applied.fn = "buildQueryString" =>
    \A i \in 1..Len(applied.params) :
      applied.params[i][2].t = "boolean" =>
        \E j \in 1..Len(QueryPairsOf(output.val)) :
          LET pair == QueryPairsOf(output.val)[j]
          IN /\ PercentDecode(KeyPart(pair)) = applied.params[i][1]
             /\ ValuePart(pair) = IF applied.params[i][2].v THEN <<"1">> ELSE <<"0">>

\* a mapping with a false value under a key that needs escaping and a true
\* value under another key was encoded
C18_Witness ==
  /\ applied.fn = "buildQueryString"
  /\ Len(applied.params) = 2
  /\ applied.params[1] = <<<<"x", "=", "&">>, JsBool(FALSE)>>
  /\ applied.params[2][2] = JsBool(TRUE)
  /\ Len(QueryPairsOf(output.val)) = 2
  /\ ValuePart(QueryPairsOf(output.val)[1]) = <<"0">>

\* a mapping none of whose values is absent
AllPresent(params) == \A i \in 1..Len(params) : IsPresent(params[i][2])

\* the text a present value is written as: the string itself, '1' or '0'
\* for a boolean, the decimal digits of a number
WireText(value) ==
  CASE value.t = "string" -> value.v
    [] value.t = "boolean" -> IF value.v THEN <<"1">> ELSE <<"0">>
    [] value.t = "number" -> NatToString(value.v)

\* C19 as stated: for every mapping with no absent values, decoding the
\* output of buildQueryString (split on '&', split each pair on its first
\* '=', percent-decode key and value) gives back the original key/value
\* set, so every original value is the string the decoder yields for its key.
C19_RoundTripExact ==
  (applied.fn = "buildQueryString" /\ AllPresent(applied.params)) =>
    /\ Cardinality(DecodeQuery(output.val)) = Len(applied.params)
    /\ \A i \in 1..Len(applied.params) :
         /\ applied.params[i][2].t = "string"
         /\ <<applied.params[i][1], applied.params[i][2].v>> \in DecodeQuery(output.val)

\* C19 (amended): for every mapping with no absent values, decoding the
\* output of buildQueryString gives back, order-insensitively, the original
\* keys, each with the text of its value: a string value as it was, spaces,
\* '&' and '=' included, a boolean as '1' or '0', a number as its decimal
\* digits.
C19_RoundTripAsText ==
  (applied.fn = "buildQueryString" /\ AllPresent(applied.params)) =>
    DecodeQuery(output.val) =
      {<<applied.params[i][1], WireText(applied.params[i][2])>> : i \in 1..Len(applied.params)}

\* a key with a space and a string value with '=' and '&' were encoded
\* together with a second entry, and the output holds escapes
C19_Witness ==
  /\ applied.fn = "buildQueryString"
  /\ Len(applied.params) = 2
  /\ AllPresent(applied.params)
  /\ applied.params[1][1] = <<"a", " ", "b">>
  /\ applied.params[1][2] = JsString(<<"a", "=", "1", "&", "b">>)
  /\ \E i \in 1..Len(output.val) : output.val[i] = "%"

\* the endpoint path of each method
PathOf(method) ==
  CASE method = "sendSMS" -> <<"/", "s", "e", "n", "d", "s", "m", "s", "/">>
    [] method = "testSMS" -> <<"/", "t", "e", "s", "t", "s", "m", "s", "/">>
    [] method = "checkCredit" -> <<"/", "c", "h", "e", "c", "k", "c", "r", "e", "d", "i", "t", "/">>
    [] method = "checkOperator" -> <<"/", "c", "h", "e", "c", "k", "o", "p", "e", "r", "a", "t", "o", "r", "/">>
    [] method = "hlr" -> <<"/", "h", "l", "r", "/">>
    [] method = "checkSMS" -> <<"/", "c", "h", "e", "c", "k", "s", "m", "s", "/">>
    [] method = "getPricing" -> <<"/", "g", "e", "t", "p", "r", "i", "c", "i", "n", "g", "/">>

\* the per-call parameters of each method, as key and text
CallPairsOf(method, arg) ==
  CASE method \in {"sendSMS", "testSMS"} ->
         {<<<<"m", "s", "g">>, arg.msg.v>>, <<<<"f", "r", "o", "m">>, arg.from.v>>, <<<<"t", "o">>, arg.to.v>>}
         \cup {<<f[1], WireText(f[2])>> :
                 f \in {g \in {<<<<"p", "r", "i", "c", "e">>, arg.price>>, <<<<"m", "c", "c", "m", "n", "c">>, arg.mccmnc>>, <<<<"c", "r", "e", "d", "i", "t">>, arg.credit>>} :
                          IsPresent(g[2])}}
    [] method \in {"checkCredit", "getPricing"} -> {}
    [] method = "checkOperator" -> {<<<<"c", "h", "e", "c", "k">>, arg.phoneNumber.v>>}
    [] method = "hlr" -> {<<<<"t", "o">>, arg.phoneNumber.v>>}
    [] method = "checkSMS" -> {<<<<"s", "m", "s", "i", "d">>, arg.smsId.v>>}

\* the credentials given at construction, as key and text
CredentialPairs ==
  {<<<<"u", "s", "e", "r", "n", "a", "m", "e">>, config.username>>, <<<<"u", "s", "e", "r", "i", "d">>, config.userid>>, <<<<"h", "a", "n", "d", "l", "e">>, config.handle>>}

\* C20: each client method sends its request to baseUrl + its own endpoint
\* path + '?' + the encoded parameters (sendSMS /sendsms/, testSMS
\* /testsms/, checkCredit /checkcredit/, checkOperator /checkoperator/ with
\* check, hlr /hlr/ with to, checkSMS /checksms/ with smsid, getPricing
\* /getpricing/), and every request carries the username, userid and handle
\* given at construction, unmodified and never overridden by a per-call
\* parameter.
C20_RequestUrl ==
  [][\A c \in DOMAIN calls :
       \A k \in (Len(calls[c].fetches) + 1)..Len(calls'[c].fetches) :
         LET url == calls'[c].fetches[k].url
             prefix == client.baseUrl \o PathOf(calls'[c].method) \o <<"?">>
             query == SubSeq(url, Len(prefix) + 1, Len(url))
             decoded == DecodeQuery(query)
         IN /\ calls'[c].fetches[k].method = "GET"
            /\ client.baseUrl = IF config.baseUrl.t = "string" /\ config.baseUrl.v # <<>>
                                THEN config.baseUrl.v
                                ELSE <<"h", "t", "t", "p", "s", ":", "/", "/", "a", "p", "i", ".", "b", "u", "d", "g", "e", "t", "s", "m", "s", ".", "n", "e", "t">>
            /\ Len(url) >= Len(prefix)
            /\ SubSeq(url, 1, Len(prefix)) = prefix
            /\ decoded = CredentialPairs \cup CallPairsOf(calls'[c].method, calls'[c].arg)
            /\ Len(QueryPairsOf(query)) = Cardinality(decoded)]_vars

\* an hlr lookup went out from a client constructed with its own base URL:
\* the URL is the base URL, /hlr/ and the three credentials followed by to
C20_Witness ==
  \E c \in DOMAIN calls :
    /\ calls[c].method = "hlr"
    /\ config.baseUrl.t = "string"
    /\ Len(calls[c].fetches) = 1
    /\ calls[c].fetches[1].url = <<"h", "t", "t", "p", ":", "/", "/", "g", "w", "/", "h", "l", "r", "/", "?", "u", "s", "e", "r", "n", "a", "m", "e", "=", "u", "s", "e", "r", "&", "u", "s", "e", "r", "i", "d", "=", "1", "2", "3", "&", "h", "a", "n", "d", "l", "e", "=", "h", "%", "2", "6", "1", "&", "t", "o", "=", "3", "1", "6">>

\* C21: the three classification predicates are exact tests of the error's
\* code: isRetryable is true exactly for 4002, 4003 and 4006,
\* isAuthenticationError exactly for 1002 to 1007, isInsufficientCredits
\* exactly for 1001, and each is false for every other code, known or
\* unknown, so no code satisfies more than one of them.
C21_ClassificationExact ==
  /\ applied.fn = "isRetryable" => (output.val <=> applied.code \in {4002, 4003, 4006})
  /\ applied.fn = "isAuthenticationError" =>
       (output.val <=> applied.code \in {1002, 1003, 1004, 1005, 1006, 1007})
  /\ applied.fn = "isInsufficientCredits" => (output.val <=> applied.code = 1001)
  /\ applied.fn \in {"isRetryable", "isAuthenticationError", "isInsufficientCredits"} =>
       Cardinality({p \in {"isRetryable", "isAuthenticationError", "isInsufficientCredits"} :
                      CASE p = "isRetryable" -> applied.code \in {4002, 4003, 4006}
                        [] p = "isAuthenticationError" -> applied.code \in 1002..1007
                        [] p = "isInsufficientCredits" -> applied.code = 1001}) <= 1

\* a permanent system error of the 4000 range, which the table knows, was
\* found not to be retryable
C21_Witness ==
  /\ applied.fn = "isRetryable"
  /\ applied.code = 4005
  /\ output.ok
  /\ ~output.val

\* every character of s is one of cs
AllIn(s, cs) == \A i \in 1..Len(s) : s[i] \in cs

\* C22: validatePhoneNumber returns true for exactly the strings made of 8
\* to 16 ASCII digits and false for every other string: any string with a
\* '+', a space, a letter or another non-digit, and any digit string shorter
\* than 8 or longer than 16.
C22_PhoneNumberDigits ==
  applied.fn = "validatePhoneNumber" =>
    (output.val <=> (AllIn(applied.arg, DigitChars) /\ Len(applied.arg) >= 8
                     /\ Len(applied.arg) <= 16))

\* sixteen digits followed by a line end were rejected
C22_Witness ==
  /\ applied.fn = "validatePhoneNumber"
  /\ Len(applied.arg) = 17
  /\ AllIn(SubSeq(applied.arg, 1, 16), DigitChars)
  /\ applied.arg[17] = "\n"
  /\ output.ok
  /\ ~output.val

\* C23: validateSender returns true exactly for strings of 1 to 11 ASCII
\* letters and digits and for strings of 1 to 16 digits, and false for every
\* other string: the empty string, a string with whitespace or punctuation,
\* a string of 12 or more letters and digits that is not all digits, and a
\* string of 17 or more digits.
C23_SenderShapes ==
  applied.fn = "validateSender" =>
    (output.val <=>
       \/ AllIn(applied.arg, LetterChars \cup DigitChars)
          /\ Len(applied.arg) >= 1 /\ Len(applied.arg) <= 11
       \/ AllIn(applied.arg, DigitChars) /\ Len(applied.arg) >= 1 /\ Len(applied.arg) <= 16)

\* a sender of twelve characters, a letter and eleven digits, was rejected
C23_Witness ==
  /\ applied.fn = "validateSender"
  /\ Len(applied.arg) = 12
  /\ AllIn(applied.arg, LetterChars \cup DigitChars)
  /\ ~AllIn(applied.arg, DigitChars)
  /\ output.ok
  /\ ~output.val

\* C24: validateMessage returns true exactly when the length of the message
\* is between 1 and 612 inclusive: false for the empty string, true at
\* length 1 and at length 612, false at length 613 and above.
C24_MessageLength ==
  applied.fn = "validateMessage" =>
    /\ output.val <=> Len(applied.arg) \in 1..612
    /\ Len(applied.arg) = 0 => ~output.val
    /\ Len(applied.arg) \in {1, 612} => output.val
    /\ Len(applied.arg) >= 613 => ~output.val

\* a message of 612 characters was accepted
C24_Witness ==
  /\ applied.fn = "validateMessage"
  /\ Len(applied.arg) = 612
  /\ output.ok
  /\ output.val

\* the fields of a result that the decoder read as numbers
NumericFieldsOf(fn, result) ==
  CASE fn = "parseSendSMSResponse" ->
         {result[f] : f \in DOMAIN result \cap {"price", "parts", "credit"}}
    [] fn = "parseCheckCreditResponse" -> {result.credit}
    [] fn = "parseOperatorResponse" -> {result.messageCost}
    [] OTHER -> {}

\* C25: every decoder either returns a fully valid result or fails: an OK
\* response in which a field decoded as a number is not numeric (the price,
\* part count or credit of a send result, the cost of an operator result, a
\* credit payload, a status payload that is not an integer) makes the decoder
\* throw a MalformedError, and no decoder returns a result that holds a
\* not-a-number value.
C25_NoNaNInResults ==
  (applied.fn \in {"parseSendSMSResponse", "parseCheckCreditResponse",
                   "parseOperatorResponse", "parseSMSStatusResponse"} /\ output.ok) =>
    /\ \A x \in NumericFieldsOf(applied.fn, output.val) : ~isNaN(x)
    /\ applied.fn = "parseSMSStatusResponse" => IsDecimal(OkPayloadOf(Trim(raw)))

\* C26: when the price is wanted but fewer than two tokens remain after the
\* message ID, parseSendSMSResponse omits both price and part count (never
\* one without the other), raises no error and consumes no token for them;
\* likewise the MCC/MNC or the credit is omitted without error when its flag
\* is set but no token remains at its position.
C26_MissingFieldsOmitted ==
  (applied.fn = "parseSendSMSResponse" /\ StartsWith(Trim(raw), <<"O", "K", " ">>)) =>
    LET toks == TokensOf(SubSeq(Trim(raw), 4, Len(Trim(raw))))
        wp == Want(applied.includePrice)
        wm == Want(applied.includeMccMnc)
        wc == Want(applied.includeCredit)
        \* the positions of the MCC/MNC and of the credit among the tokens
        pm == IF wp /\ Len(toks) >= 3 THEN 4 ELSE 2
        pc == IF wm /\ Len(toks) >= pm THEN pm + 1 ELSE pm
    IN /\ output.ok
       /\ "price" \in DOMAIN output.val <=> "parts" \in DOMAIN output.val
       /\ (wp /\ Len(toks) < 3) =>
            /\ {"price", "parts"} \cap DOMAIN output.val = {}
            /\ (wm /\ Len(toks) = 2) =>
                 ("mccMnc" \in DOMAIN output.val /\ output.val.mccMnc = toks[2])
            /\ (~wm /\ wc /\ Len(toks) = 2) =>
                 ("credit" \in DOMAIN output.val /\ output.val.credit = parseFloat(toks[2]))
       /\ (wm /\ Len(toks) < pm) => "mccMnc" \notin DOMAIN output.val
       /\ (wc /\ Len(toks) < pc) => "credit" \notin DOMAIN output.val

\* price and MCC/MNC were wanted and one token followed the message ID: the
\* result has no price and the token is the MCC/MNC
C26_Witness ==
  /\ applied.fn = "parseSendSMSResponse"
  /\ Want(applied.includePrice) /\ Want(applied.includeMccMnc) /\ Want(applied.includeCredit)
  /\ StartsWith(Trim(raw), <<"O", "K", " ">>)
  /\ Len(TokensOf(SubSeq(Trim(raw), 4, Len(Trim(raw))))) = 2
  /\ output.ok
  /\ DOMAIN output.val = {"success", "smsId", "mccMnc"}
  /\ output.val.mccMnc = <<"0", ".", "5", "0">>


\* the send methods
SendMethods == {"sendSMS", "testSMS"}

\* C27: sendSMS and testSMS decode the gateway's reply with exactly the
\* price, mccmnc and credit flags of the request they sent: a field (price
\* and parts, mccMnc, credit) appears in the result only if its flag was true
\* in the call's parameters, and a flag that was false or omitted never
\* consumes a token of the reply.
C27_FlagsOfTheCall ==
  \A c \in DOMAIN calls :
    (calls[c].pc = "done" /\ calls[c].method \in SendMethods /\ calls[c].outcome.ok) =>
      LET call == calls[c]
          res == call.outcome.val
          toks == TokensOf(SubSeq(Trim(call.resp.body), 4, Len(Trim(call.resp.body))))
          \* the tokens the result's fields were read from, in order
          pm == IF "price" \in DOMAIN res THEN 4 ELSE 2
          pc == IF "mccMnc" \in DOMAIN res THEN pm + 1 ELSE pm
      IN /\ "price" \in DOMAIN res => call.arg.price = JsBool(TRUE)
         /\ "parts" \in DOMAIN res => call.arg.price = JsBool(TRUE)
         /\ "mccMnc" \in DOMAIN res => call.arg.mccmnc = JsBool(TRUE)
         /\ "credit" \in DOMAIN res => call.arg.credit = JsBool(TRUE)
         /\ "price" \in DOMAIN res =>
              (res.price = parseFloat(toks[2]) /\ res.parts = parseInt(toks[3]))
         /\ "mccMnc" \in DOMAIN res => res.mccMnc = toks[pm]
         /\ "credit" \in DOMAIN res => res.credit = parseFloat(toks[pc])
         /\ (call.arg.price = JsBool(TRUE) /\ Len(toks) >= 3) => "price" \in DOMAIN res
         /\ (call.arg.mccmnc = JsBool(TRUE) /\ Len(toks) >= pm) => "mccMnc" \in DOMAIN res
         /\ (call.arg.credit = JsBool(TRUE) /\ Len(toks) >= pc) => "credit" \in DOMAIN res

\* a send call with price false, mccmnc true and credit omitted got a reply
\* of five tokens: the result has the MCC/MNC only, read from the token after
\* the message ID
C27_Witness ==
  \E c \in DOMAIN calls :
    /\ calls[c].pc = "done" /\ calls[c].method = "sendSMS" /\ calls[c].outcome.ok
    /\ calls[c].arg.price = JsBool(FALSE) /\ calls[c].arg.mccmnc = JsBool(TRUE)
    /\ calls[c].arg.credit = JsUndefined
    /\ Len(TokensOf(SubSeq(Trim(calls[c].resp.body), 4, Len(Trim(calls[c].resp.body))))) = 5
    /\ DOMAIN calls[c].outcome.val = {"success", "smsId", "mccMnc"}
    /\ calls[c].outcome.val.mccMnc = <<"0", ".", "5", "0">>


\* the part of a url after its first question mark
QueryStringOf(url) ==
  LET at == CHOOSE i \in 1..Len(url) :
              url[i] = "?" /\ \A j \in 1..(i - 1) : url[j] # "?"
  IN SubSeq(url, at + 1, Len(url))

\* the part of a url up to and including its first question mark
BeforeQueryOf(url) == SubSeq(url, 1, Len(url) - Len(QueryStringOf(url)))

\* what the gateway and the transport did to a call
ReplyOf(call) == [resp |-> call.resp, cause |-> call.cause]

\* C28: for the same parameters and the same gateway reply, testSMS and
\* sendSMS build the same query string and return the same result or the
\* same error; the two requests differ only in their endpoint path
\* (/testsms/ against /sendsms/).
C28_TestLikeSend ==
  (Len(calls) = 2 /\ calls[1].method = "sendSMS" /\ calls[2].method = "testSMS"
   /\ calls[1].arg = calls[2].arg) =>
    LET send == calls[1]
        test == calls[2]
        sendUrl == send.fetches[1].url
        testUrl == test.fetches[1].url
    IN /\ Len(send.fetches) = 1 /\ Len(test.fetches) = 1
       /\ send.fetches[1].method = test.fetches[1].method
       /\ QueryStringOf(sendUrl) = QueryStringOf(testUrl)
       /\ BeforeQueryOf(sendUrl) = client.baseUrl \o <<"/", "s", "e", "n", "d", "s", "m", "s", "/", "?">>
       /\ BeforeQueryOf(testUrl) = client.baseUrl \o <<"/", "t", "e", "s", "t", "s", "m", "s", "/", "?">>
       /\ (send.pc = "done" /\ test.pc = "done" /\ ReplyOf(send) = ReplyOf(test)) =>
            send.outcome = test.outcome

\* both calls asked for price, MCC/MNC and credit and got the same reply of
\* five tokens: both return the same result, with all the fields
C28_Witness ==
  /\ Len(calls) = 2
  /\ calls[1].method = "sendSMS" /\ calls[2].method = "testSMS"
  /\ calls[1].pc = "done" /\ calls[2].pc = "done"
  /\ calls[1].arg.price = JsBool(TRUE) /\ calls[2].arg.price = JsBool(TRUE)
  /\ ReplyOf(calls[1]) = ReplyOf(calls[2])
  /\ calls[1].outcome.ok /\ calls[2].outcome.ok
  /\ "credit" \in DOMAIN calls[1].outcome.val
  /\ calls[1].outcome = calls[2].outcome
  /\ calls[1].fetches[1].url # calls[2].fetches[1].url

\* both calls got the same gateway error: both fail with the same error
C28_WitnessError ==
  /\ Len(calls) = 2
  /\ calls[1].method = "sendSMS" /\ calls[2].method = "testSMS"
  /\ calls[1].pc = "done" /\ calls[2].pc = "done"
  /\ ReplyOf(calls[1]) = ReplyOf(calls[2])
  /\ ~calls[1].outcome.ok /\ calls[1].outcome.err.type = "BudgetSMSError"
  /\ calls[1].outcome = calls[2].outcome


\* C29: every client call eventually completes, with a typed result or with
\* an error, provided the transport eventually either delivers its response
\* or honours cancellation: a request is never left pending once its timeout
\* has expired.
C29_CallsComplete ==
  \A c \in 1..MaxLive :
    /\ (calls[c].pc \in {"fetching", "reading"}) ~>
         (calls[c].pc = "done" /\ calls[c].outcome # NoOutcome)
    /\ (calls[c].timer = "fired" /\ calls[c].pc # "done") ~> (calls[c].pc = "done")

\* the headers had arrived when the timer expired, and the call completed
\* with the timeout error
C29_Witness ==
  \E c \in DOMAIN calls :
    /\ calls[c].pc = "done"
    /\ calls[c].timer = "fired"
    /\ calls[c].resp.hasBody
    /\ IsTimeoutError(calls[c].outcome)


InFlight == {"fetching", "reading"}

\* C30: a call fails with the timeout error only if its own timeout timer
\* expired while that call was still in flight: a call whose response body
\* has been fully read before the timer expires never reports a timeout, and
\* a network failure or non-2xx status that occurs before the timer expires
\* is never reported as a timeout.
C30_TimeoutOnlyOnExpiry ==
  [][\A c \in DOMAIN calls :
       \* a timer expires only on a call in flight
       /\ (calls'[c].timer = "fired" /\ calls[c].timer # "fired") =>
            calls[c].pc \in InFlight
       \* the step that completes a call
       /\ (calls'[c].pc = "done" /\ calls[c].pc # "done") =>
            /\ IsTimeoutError(calls'[c].outcome) =>
                 (calls[c].timer = "fired" /\ calls[c].pc \in InFlight)
            /\ (calls[c].timer # "fired" /\ calls[c].pc = "reading"
                /\ calls'[c].cause \notin NetworkErrors) =>
                 (calls'[c].decoded /\ ~IsTimeoutError(calls'[c].outcome))
            /\ (calls[c].timer # "fired" /\ calls'[c].cause \in NetworkErrors) =>
                 calls'[c].outcome = Thrown(calls'[c].cause)
            /\ (calls[c].timer # "fired" /\ calls'[c].resp.hasBody
                /\ ~ResponseOk(calls'[c].resp.status)) =>
                 IsPlainError(calls'[c].outcome, "HTTP error! status: ")]_vars

\* two calls on one instance: the timer of one expired and it failed with
\* the timeout error; the other failed on the network with its timer still
\* armed and reports the network error
C30_Witness ==
  \E c, d \in DOMAIN calls :
    /\ calls[c].pc = "done" /\ calls[c].timer = "fired"
    /\ IsTimeoutError(calls[c].outcome)
    /\ calls[d].pc = "done" /\ calls[d].timer = "cleared"
    /\ calls[d].cause \in NetworkErrors
    /\ calls[d].outcome = Thrown(calls[d].cause)

====
